---- MODULE Spec2Model ----
(***************************************************************************)
(* Model of the ProxyManager of lazyl2m (src/proxy_manager.go): the        *)
(* supervisor of the CLIProxyAPI subprocess, its state cache and its log.  *)
(*                                                                         *)
(* One foreground goroutine (the tview event loop of src/main.go) calls    *)
(* Start and Stop.  Start and Stop hold pm.mutex from entry to return      *)
(* (defer Unlock), including the 1.5s sleep and the 2s select, so they are *)
(* modelled as several steps taken with the mutex held.  The goroutines    *)
(* Start and Stop launch read pm.process without the mutex; each such read *)
(* is a step of its own, taken whenever the goroutine is scheduled.        *)
(***************************************************************************)
EXTENDS Integers, Sequences, FiniteSets, TLC

\* ---------------------------------------------------------------- bounds
\* number of exec.Cmd values Start may create in one behaviour
MaxRuns == 2
\* number of telemetry fetches in one behaviour of SpecFetch
MaxFetch == 4
\* appends made beyond the capacity of the log in SpecLog
MaxAppends == 3
\* number of entries the auth directory may hold at once
MaxFiles == 2
\* number of install goroutines the install key may launch in one behaviour
MaxInstalls == 2
\* number of assets a release feed lists
MaxAssets == 3
\* number of entries an archive holds
MaxEntries == 3
\* number of backing arrays allocated for the log in SpecSnapshot
MaxArrays == 3
\* spare cells a newly allocated backing array may have beyond the need
MaxSpare == 1
\* number of slices GetLogs hands out in one behaviour of SpecSnapshot
MaxReturned == 1
\* bytes the managed process writes to one of its output streams
MaxOutput == 2
\* bytes one Read of an output reader returns at most (the buffer, scaled)
MaxRead == 2
\* number of times the settings are saved in one behaviour
MaxSaves == 1

\* ------------------------------------------------------- program constants
maxLogEntries == 1000

Pids == 1..MaxRuns
Installs == 1..MaxInstalls
NoProcess == 0

LogLevelInfo == "info"
LogLevelWarn == "warn"
LogLevelError == "error"
LogLevelDebug == "debug"

VARIABLES
    running,          \* pm.status.Running
    process,          \* pm.process: NoProcess (nil) or the id of an exec.Cmd
    lastError,        \* pm.lastError
    logEntries,       \* pm.logEntries
    usageStats,       \* pm.usageStats
    mutex,            \* pm.mutex: "free" or the operation holding it
    binaryInstalled,  \* os.Stat(pm.binaryPath) succeeds
    nRuns,            \* number of exec.Cmd values created so far
    procState,        \* per exec.Cmd: the state of its OS process
    waiter,           \* per run: the exit-waiter goroutine of Start
    stopWaiter,       \* per run: the goroutine of Stop feeding `done`
    fg,               \* the foreground goroutine: position inside Start/Stop
    ret,              \* what the last completed foreground call returned
    signals,          \* signals delivered so far, as <<signal, pid>>
    sweeps,           \* number of killProcessOnPort runs so far
    lastTransition,   \* history: the last successful Start/Stop, and its run
    crashed,          \* a goroutine dereferenced a nil *exec.Cmd: the program died
    fetchRet,         \* what the last telemetry fetch met and returned
    now,              \* the clock read by time.Now() in the fetchers
    authFiles,        \* pm.authFiles
    authDir,          \* the entries present in pm.authDir (environment)
    httpRequests,     \* number of GET requests sent to the management endpoint
    isDownloading,    \* pm.isDownloading
    downloadProgress, \* pm.downloadProgress, in tenths
    binaryContent,    \* what the file at pm.binaryPath holds
    nInstalls,        \* number of install goroutines launched so far
    inst,             \* per install goroutine: its position and locals
    call,             \* the last call of a helper: its inputs and its result
    quotaInfos,       \* pm.quotaInfos
    heap,             \* the backing arrays allocated for pm.logEntries
    logSlice,         \* the slice header held in pm.logEntries
    returned,         \* the slice headers handed out by GetLogs
    termSent,         \* history: the processes running when Stop signalled them
    pipe,             \* per output stream: the bytes written and not yet read
    nWritten,         \* per output stream: the number of bytes written so far
    reader,           \* per output stream: the reader goroutine Start launched
    chunks,           \* history, per output stream: the chunks read, in order
    configPort,       \* pm.config.Port, the configuration shared with the settings
    statusPort,       \* pm.status.Port
    filePort,         \* the port written in the proxy's config.yaml
    procPort          \* history: the port the last spawned process was started with,
                      \* 0 before the first

vars == <<running, process, lastError, logEntries, usageStats, mutex,
          binaryInstalled, nRuns, procState, waiter, stopWaiter, fg, ret,
          signals, sweeps, lastTransition, crashed, fetchRet, now,
          authFiles, authDir, httpRequests,
          isDownloading, downloadProgress, binaryContent, nInstalls, inst,
          call, quotaInfos, heap, logSlice, returned, termSent,
          pipe, nWritten, reader, chunks, configPort, statusPort, filePort, procPort>>

\* the state of the telemetry cache and of the installer
telemetryVars == <<authFiles, authDir, httpRequests>>
installVars == <<isDownloading, downloadProgress, binaryContent, nInstalls, inst>>

\* the state of the helper calls, of the quota list and of the log's memory
\* the output pipes of the managed process and their readers
readerVars == <<pipe, nWritten, reader, chunks>>

\* the port in the configuration, in the status, in the config file and of the process
portVars == <<configPort, statusPort, filePort, procPort>>

toolVars == <<call, quotaInfos, heap, logSlice, returned, termSent, readerVars, portVars>>

\* ------------------------------------------------------------------ log
LogEntry(level, message) == [level |-> level, message |-> message]

\* AddLog: append, then keep only the last maxLogEntries entries
AddLog_NoEviction(log, level, message) == Append(log, LogEntry(level, message))

AddLog(log, level, message) ==
    LET appended == Append(log, LogEntry(level, message))
    IN  IF Len(appended) > maxLogEntries
        THEN SubSeq(appended, Len(appended) - maxLogEntries + 1, Len(appended))
        ELSE appended

\* --------------------------------------------------------------- process
\* The OS process behind an exec.Cmd:
\*   "unused"  the Cmd does not exist yet
\*   "failed"  cmd.Start() returned an error (cmd.Process is nil)
\*   "alive"   running
\*   "killed"  running, SIGKILL queued
\*   "exited_ok" / "exited_err"  terminated, not yet reaped by a Wait
\*   "reaped"  terminated and reaped
Started(p) == procState[p] \notin {"unused", "failed"}
Alive(p) == procState[p] \in {"alive", "killed"}
Exited(p) == procState[p] \in {"exited_ok", "exited_err", "reaped"}

\* Process.Signal(0): fails once the process has been waited for
ProbeOK_NoSignal(p) == TRUE

ProbeOK(p) == procState[p] \in {"alive", "killed", "exited_ok", "exited_err"}

NoRet == [op |-> "none", err |-> "none"]
Idle == [pc |-> "idle", run |-> NoProcess]
NoGoroutine == [pc |-> "none", target |-> NoProcess, err |-> FALSE]
ZeroStats == [totalRequests |-> 0, successRequests |-> 0, failedRequests |-> 0,
              totalTokens |-> 0, successRate |-> 0, lastUpdated |-> 0]

\* an install goroutine that was not launched
NoInstall == [pc |-> "none", err |-> "none", milestones |-> << >>,
              tempDir |-> "none", touched |-> FALSE, atCall |-> "none"]

\* NewProxyManager: the account cache is empty; the auth directory was just
\* created or holds what earlier sessions left (entries are added by AuthDirAdd)
TelemetryInit ==
    /\ authFiles = << >>
    /\ authDir = [ok |-> TRUE, entries |-> {}]
    /\ httpRequests = 0

\* NewProxyManager: no download in progress; the install path holds a
\* complete binary of an earlier session, or nothing
InstallInit ==
    /\ isDownloading = FALSE
    /\ downloadProgress = 0
    /\ binaryContent = IF binaryInstalled THEN "previous" ELSE "none"
    /\ nInstalls = 0
    /\ inst = [i \in Installs |-> NoInstall]

\* NewDefaultConfig: the port of a new configuration
DefaultPort == 8317

\* the two pipes Start attaches to the process
Streams == {"stdout", "stderr"}

\* no helper has been called yet
NoCall == [op |-> "none"]

\* NewProxyManager: no quota list; pm.logEntries is a slice over one array
\* that holds exactly the entries of the log
ToolInit ==
    /\ call = NoCall
    /\ quotaInfos = << >>
    /\ heap = <<logEntries>>
    /\ logSlice = [arr |-> 1, off |-> 0, len |-> Len(logEntries)]
    /\ returned = {}
    /\ termSent = {}
    /\ pipe = [s \in Streams |-> << >>]
    /\ nWritten = [s \in Streams |-> 0]
    /\ reader = [s \in Streams |-> [pc |-> "none", chunk |-> << >>]]
    /\ chunks = [s \in Streams |-> << >>]
    /\ configPort = DefaultPort
    /\ statusPort = configPort
    /\ filePort = configPort
    /\ procPort = 0

\* NewProxyManager
Init ==
    /\ running = FALSE
    /\ process = NoProcess
    /\ lastError = ""
    /\ logEntries = << >>
    /\ usageStats = ZeroStats
    /\ mutex = "free"
    /\ binaryInstalled \in BOOLEAN
    /\ nRuns = 0
    /\ procState = [p \in Pids |-> "unused"]
    /\ waiter = [p \in Pids |-> NoGoroutine]
    /\ stopWaiter = [p \in Pids |-> NoGoroutine]
    /\ fg = Idle
    /\ ret = NoRet
    /\ signals = {}
    /\ sweeps = 0
    /\ lastTransition = [op |-> "none", run |-> NoProcess]
    /\ crashed = FALSE
    /\ fetchRet = [op |-> "none", outcome |-> "none", err |-> "none"]
    /\ now = 0
    /\ TelemetryInit
    /\ InstallInit
    /\ ToolInit


\* ------------------------------------------------------------ ProxyManager.Start
\* the checks at the head of Start: which error it returns before doing anything
StartRejects_NoRunningCheck ==
    IF ~binaryInstalled THEN "NotInstalled" ELSE "none"

StartRejects_NoBinaryCheck ==
    IF running THEN "AlreadyRunning" ELSE "none"

StartRejects ==
    IF running THEN "AlreadyRunning"
    ELSE IF ~binaryInstalled THEN "NotInstalled"
    ELSE "none"

\* Start, from the call to the sleep (or to an early return).  The mutex is
\* taken on entry and, when the subprocess was spawned, is still held during
\* the sleep.
StartCall ==
    /\ UNCHANGED <<telemetryVars, installVars, call, quotaInfos, heap, logSlice, returned,
                   termSent, readerVars, configPort, statusPort, filePort>>
    /\ ~crashed
    /\ fg.pc = "idle"
    /\ mutex = "free"
    /\ IF StartRejects # "none"
       THEN /\ ret' = [op |-> "Start", err |-> StartRejects]
            /\ UNCHANGED <<running, process, lastError, logEntries, mutex, nRuns,
                           procState, waiter, fg, procPort>>
       ELSE /\ nRuns < MaxRuns
            /\ \E spawned \in BOOLEAN :
                 LET p == nRuns + 1
                     log1 == AddLog(logEntries, LogLevelInfo, "Starting proxy server")
                 IN  /\ nRuns' = p
                     /\ process' = p
                     /\ IF spawned
                        THEN /\ procState' = [procState EXCEPT ![p] = "alive"]
                             /\ procPort' = filePort
                             /\ lastError' = ""
                             /\ logEntries' = log1
                             /\ waiter' = [waiter EXCEPT ![p] =
                                   [pc |-> "check", target |-> NoProcess, err |-> FALSE]]
                             /\ fg' = [pc |-> "start_sleep", run |-> p]
                             /\ mutex' = "Start"
                             /\ UNCHANGED ret
                        ELSE /\ procState' = [procState EXCEPT ![p] = "failed"]
                             /\ lastError' = "spawn failed"
                             /\ logEntries' = AddLog(log1, LogLevelError, "Failed to start proxy")
                             /\ ret' = [op |-> "Start", err |-> "SpawnError"]
                             /\ UNCHANGED <<waiter, fg, mutex, procPort>>
            /\ UNCHANGED running
    /\ UNCHANGED <<usageStats, binaryInstalled, stopWaiter, signals, sweeps,
                   lastTransition, crashed, fetchRet, now>>

\* Start, after the sleep: the zero-signal probe and the return
StartProbe ==
    /\ UNCHANGED <<telemetryVars, installVars, toolVars>>
    /\ ~crashed
    /\ fg.pc = "start_sleep"
    /\ IF process # NoProcess /\ Started(process) /\ ProbeOK(process)
       THEN /\ running' = TRUE
            /\ logEntries' = AddLog(logEntries, LogLevelInfo, "Proxy server started successfully")
            /\ ret' = [op |-> "Start", err |-> "nil"]
            /\ lastTransition' = [op |-> "start", run |-> process]
            /\ UNCHANGED lastError
       ELSE /\ lastError' = "Process failed to start"
            /\ ret' = [op |-> "Start", err |-> "StartFailed"]
            /\ UNCHANGED <<running, logEntries, lastTransition>>
    /\ fg' = Idle
    /\ mutex' = "free"
    /\ UNCHANGED <<process, usageStats, binaryInstalled, nRuns, procState, waiter,
                   stopWaiter, signals, sweeps, crashed, fetchRet, now>>

\* ------------------------------------------------- the exit-waiter goroutine
\* `if pm.process != nil`: an unsynchronised read of pm.process
WaiterCheck(i) ==
    /\ UNCHANGED <<telemetryVars, installVars, toolVars>>
    /\ ~crashed
    /\ waiter[i].pc = "check"
    /\ waiter' = [waiter EXCEPT ![i].pc =
                     IF process = NoProcess THEN "done" ELSE "deref"]
    /\ UNCHANGED <<running, process, lastError, logEntries, usageStats, mutex,
                   binaryInstalled, nRuns, procState, stopWaiter, fg, ret,
                   signals, sweeps, lastTransition, crashed, fetchRet, now>>

\* `pm.process.Wait()`: the second unsynchronised read; a nil pointer panics
WaiterDeref(i) ==
    /\ UNCHANGED <<telemetryVars, installVars, toolVars>>
    /\ ~crashed
    /\ waiter[i].pc = "deref"
    /\ IF process = NoProcess
       THEN /\ crashed' = TRUE
            /\ waiter' = [waiter EXCEPT ![i].pc = "panic"]
       ELSE /\ waiter' = [waiter EXCEPT ![i].pc = "wait", ![i].target = process]
            /\ UNCHANGED crashed
    /\ UNCHANGED <<running, process, lastError, logEntries, usageStats, mutex,
                   binaryInstalled, nRuns, procState, stopWaiter, fg, ret,
                   signals, sweeps, lastTransition, fetchRet, now>>

\* what cmd.Wait() returns once it can return: an error unless this call
\* reaped a process that exited with status 0
WaitErr(p) == procState[p] # "exited_ok"
WaitReturns(p) == procState[p] \in {"failed", "exited_ok", "exited_err", "reaped"}
Reap(p) == IF procState[p] \in {"exited_ok", "exited_err"}
           THEN [procState EXCEPT ![p] = "reaped"]
           ELSE procState

\* cmd.Wait() returns in the exit waiter
WaiterWait(i) ==
    /\ UNCHANGED <<telemetryVars, installVars, toolVars>>
    /\ ~crashed
    /\ waiter[i].pc = "wait"
    /\ WaitReturns(waiter[i].target)
    /\ waiter' = [waiter EXCEPT ![i].pc = "lock", ![i].err = WaitErr(waiter[i].target)]
    /\ procState' = Reap(waiter[i].target)
    /\ UNCHANGED <<running, process, lastError, logEntries, usageStats, mutex,
                   binaryInstalled, nRuns, stopWaiter, fg, ret,
                   signals, sweeps, lastTransition, crashed, fetchRet, now>>

\* the log after the exit waiter's critical section: the exit is not logged
ExitLog_Silent(log, err) == log

ExitLog(log, err) ==
    IF err THEN AddLog(log, LogLevelError, "Proxy exited with error")
           ELSE AddLog(log, LogLevelInfo, "Proxy process exited")

\* the critical section of the exit waiter
WaiterExit(i) ==
    /\ UNCHANGED <<telemetryVars, installVars, toolVars>>
    /\ ~crashed
    /\ waiter[i].pc = "lock"
    /\ mutex = "free"
    /\ running' = FALSE
    /\ process' = NoProcess
    /\ lastError' = IF waiter[i].err THEN "wait error" ELSE lastError
    /\ logEntries' = ExitLog(logEntries, waiter[i].err)
    /\ waiter' = [waiter EXCEPT ![i].pc = "done"]
    /\ UNCHANGED <<usageStats, mutex, binaryInstalled, nRuns, procState,
                   stopWaiter, fg, ret, signals, sweeps, lastTransition,
                   crashed, fetchRet, now>>

\* ------------------------------------------------------------- environment
\* the managed process terminates (on its own or because of a signal)
ProcessExit(p) ==
    /\ UNCHANGED <<telemetryVars, installVars, toolVars>>
    /\ ~crashed
    /\ Alive(p)
    /\ \E st \in (IF procState[p] = "killed" THEN {"exited_err"}
                  ELSE {"exited_ok", "exited_err"}) :
          procState' = [procState EXCEPT ![p] = st]
    /\ UNCHANGED <<running, process, lastError, logEntries, usageStats, mutex,
                   binaryInstalled, nRuns, waiter, stopWaiter, fg, ret,
                   signals, sweeps, lastTransition, crashed, fetchRet, now>>

\* the binary file appears (an install) or disappears
BinaryChange ==
    /\ ~crashed
    /\ binaryInstalled' = ~binaryInstalled
    /\ binaryContent' = IF binaryInstalled THEN "none" ELSE "new"
    /\ UNCHANGED <<telemetryVars, isDownloading, downloadProgress, nInstalls, inst,
                   toolVars>>
    /\ UNCHANGED <<running, process, lastError, logEntries, usageStats, mutex,
                   nRuns, procState, waiter, stopWaiter, fg, ret,
                   signals, sweeps, lastTransition, crashed, fetchRet, now>>


\* ------------------------------------------------------------- ProxyManager.Stop
\* the check at the head of Stop
StopRejects_Never == FALSE

StopRejects == ~running

\* Stop, from the call to the select (or to the early return): takes the
\* mutex, logs, sends SIGTERM and launches the goroutine that feeds `done`
StopCall ==
    /\ UNCHANGED <<telemetryVars, installVars, call, quotaInfos, heap, logSlice, returned,
                   readerVars, portVars>>
    /\ termSent' = IF ~StopRejects /\ process # NoProcess /\ Alive(process)
                   THEN termSent \cup {process}
                   ELSE termSent
    /\ ~crashed
    /\ fg.pc = "idle"
    /\ mutex = "free"
    /\ IF StopRejects
       THEN /\ ret' = [op |-> "Stop", err |-> "NotRunning"]
            /\ UNCHANGED <<logEntries, mutex, stopWaiter, fg, signals>>
       ELSE /\ logEntries' = AddLog(logEntries, LogLevelInfo, "Stopping proxy server")
            /\ mutex' = "Stop"
            /\ IF process # NoProcess /\ Started(process)
               THEN /\ signals' = signals \cup {<<"SIGTERM", process>>}
                    /\ stopWaiter' = [stopWaiter EXCEPT ![process] =
                          [pc |-> "read", target |-> NoProcess, err |-> FALSE]]
                    /\ fg' = [pc |-> "stop_select", run |-> process]
               ELSE /\ fg' = [pc |-> "stop_sweep", run |-> NoProcess]
                    /\ UNCHANGED <<signals, stopWaiter>>
            /\ UNCHANGED ret
    /\ UNCHANGED <<running, process, lastError, usageStats, binaryInstalled, nRuns,
                   procState, waiter, sweeps, lastTransition, crashed, fetchRet, now>>

\* `done <- pm.process.Wait()`: the goroutine's unsynchronised read of
\* pm.process; Stop sets pm.process to nil after the select
StopWaiterRead(p) ==
    /\ UNCHANGED <<telemetryVars, installVars, toolVars>>
    /\ ~crashed
    /\ stopWaiter[p].pc = "read"
    /\ IF process = NoProcess
       THEN /\ crashed' = TRUE
            /\ stopWaiter' = [stopWaiter EXCEPT ![p].pc = "panic"]
       ELSE /\ stopWaiter' = [stopWaiter EXCEPT ![p].pc = "wait", ![p].target = process]
            /\ UNCHANGED crashed
    /\ UNCHANGED <<running, process, lastError, logEntries, usageStats, mutex,
                   binaryInstalled, nRuns, procState, waiter, fg, ret,
                   signals, sweeps, lastTransition, fetchRet, now>>

\* cmd.Wait() returns in Stop's goroutine and the result is put on `done`
StopWaiterWait(p) ==
    /\ UNCHANGED <<telemetryVars, installVars, toolVars>>
    /\ ~crashed
    /\ stopWaiter[p].pc = "wait"
    /\ WaitReturns(stopWaiter[p].target)
    /\ stopWaiter' = [stopWaiter EXCEPT ![p].pc = "sent",
                                        ![p].err = WaitErr(stopWaiter[p].target)]
    /\ procState' = Reap(stopWaiter[p].target)
    /\ UNCHANGED <<running, process, lastError, logEntries, usageStats, mutex,
                   binaryInstalled, nRuns, waiter, fg, ret,
                   signals, sweeps, lastTransition, crashed, fetchRet, now>>

\* select: `case <-done`
StopSelectDone ==
    /\ UNCHANGED <<telemetryVars, installVars, toolVars>>
    /\ ~crashed
    /\ fg.pc = "stop_select"
    /\ stopWaiter[fg.run].pc = "sent"
    /\ stopWaiter' = [stopWaiter EXCEPT ![fg.run].pc = "done"]
    /\ process' = NoProcess
    /\ fg' = [fg EXCEPT !.pc = "stop_sweep"]
    /\ UNCHANGED <<running, lastError, logEntries, usageStats, mutex,
                   binaryInstalled, nRuns, procState, waiter, ret,
                   signals, sweeps, lastTransition, crashed, fetchRet, now>>

\* Process.Kill(): SIGKILL is queued for a process that is still running
Kill(ps, p) == IF ps[p] = "alive" THEN [ps EXCEPT ![p] = "killed"] ELSE ps

\* select: `case <-time.After(2 * time.Second)`
StopSelectTimeout ==
    /\ UNCHANGED <<telemetryVars, installVars, toolVars>>
    /\ ~crashed
    /\ fg.pc = "stop_select"
    /\ signals' = signals \cup {<<"SIGKILL", process>>}
    /\ procState' = Kill(procState, process)
    /\ logEntries' = AddLog(logEntries, LogLevelWarn, "Force killed proxy process")
    /\ process' = NoProcess
    /\ fg' = [fg EXCEPT !.pc = "stop_sweep"]
    /\ UNCHANGED <<running, lastError, usageStats, mutex, binaryInstalled, nRuns,
                   waiter, stopWaiter, ret, sweeps, lastTransition, crashed, fetchRet, now>>

RECURSIVE KillAll(_, _)
KillAll(ps, S) ==
    IF S = {} THEN ps
    ELSE LET p == CHOOSE q \in S : TRUE IN KillAll(Kill(ps, p), S \ {p})

\* killProcessOnPort: SIGKILL to the pids lsof reports on the port (none when
\* lsof fails); of the managed processes, those still running may be bound
killProcessOnPort ==
    /\ UNCHANGED <<telemetryVars, installVars, toolVars>>
    /\ ~crashed
    /\ fg.pc = "stop_sweep"
    /\ \E S \in SUBSET {p \in Pids : Alive(p)} :
          /\ signals' = signals \cup {<<"SIGKILL", p>> : p \in S}
          /\ procState' = KillAll(procState, S)
    /\ sweeps' = sweeps + 1
    /\ fg' = [fg EXCEPT !.pc = "stop_finish"]
    /\ UNCHANGED <<running, process, lastError, logEntries, usageStats, mutex,
                   binaryInstalled, nRuns, waiter, stopWaiter, ret,
                   lastTransition, crashed, fetchRet, now>>

\* Stop, after the sweep: the status change, the log entry and the return
StopFinish_KeepsRunning ==
    /\ UNCHANGED <<telemetryVars, installVars, toolVars>>
    /\ ~crashed
    /\ fg.pc = "stop_finish"
    /\ logEntries' = AddLog(logEntries, LogLevelInfo, "Proxy server stopped")
    /\ ret' = [op |-> "Stop", err |-> "nil"]
    /\ lastTransition' = [op |-> "stop", run |-> fg.run]
    /\ fg' = Idle
    /\ mutex' = "free"
    /\ UNCHANGED <<running, process, lastError, usageStats, binaryInstalled, nRuns,
                   procState, waiter, stopWaiter, signals, sweeps, crashed, fetchRet, now>>

StopFinish ==
    /\ UNCHANGED <<telemetryVars, installVars, toolVars>>
    /\ ~crashed
    /\ fg.pc = "stop_finish"
    /\ running' = FALSE
    /\ logEntries' = AddLog(logEntries, LogLevelInfo, "Proxy server stopped")
    /\ ret' = [op |-> "Stop", err |-> "nil"]
    /\ lastTransition' = [op |-> "stop", run |-> fg.run]
    /\ fg' = Idle
    /\ mutex' = "free"
    /\ UNCHANGED <<process, lastError, usageStats, binaryInstalled, nRuns,
                   procState, waiter, stopWaiter, signals, sweeps, crashed, fetchRet, now>>


\* -------------------------------------------------- ProxyManager.FetchUsageStats
\* the numeric fields a 200 response may carry
StatsPayloads ==
    { [totalRequests |-> 10, successRequests |-> 9, failedRequests |-> 1,
       totalTokens |-> 500, successRate |-> 90],
      [totalRequests |-> 4, successRequests |-> 2, failedRequests |-> 2,
       totalTokens |-> 80, successRate |-> 50] }

\* what the GET of /usage-statistics can meet
FetchOutcomes == {"transport_error", "non200", "read_error", "bad_json", "ok"}

WithTime(stats, t) ==
    [totalRequests |-> stats.totalRequests, successRequests |-> stats.successRequests,
     failedRequests |-> stats.failedRequests, totalTokens |-> stats.totalTokens,
     successRate |-> stats.successRate, lastUpdated |-> t]

\* a failed request keeps the snapshot and refreshes its timestamp
KeepStats_Reset(stats, t) == WithTime(ZeroStats, t)

KeepStats(stats, t) == [stats EXCEPT !.lastUpdated = t]

\* called while not running: the snapshot is replaced by an empty one that
\* carries the time of the call
NotRunningStats_Keep(stats, t) == [stats EXCEPT !.lastUpdated = t]

NotRunningStats(stats, t) == WithTime(ZeroStats, t)

\* what a fetcher returns for an outcome of its request: only a body that
\* cannot be read or decoded is returned as an error
FetchErr_AnyFailure(outcome) == IF outcome = "ok" THEN "nil" ELSE outcome

FetchErr(outcome) == IF outcome \in {"read_error", "bad_json"} THEN outcome ELSE "nil"

\* FetchUsageStats, called by the ticker goroutine or the dashboard refresh;
\* the mutex is held from entry to return
FetchUsageStats ==
    /\ ~crashed
    /\ mutex = "free"
    /\ now < MaxFetch
    /\ now' = now + 1
    /\ httpRequests' = IF running THEN httpRequests + 1 ELSE httpRequests
    /\ IF ~running
       THEN /\ usageStats' = NotRunningStats(usageStats, now')
            /\ fetchRet' = [op |-> "FetchUsageStats", outcome |-> "not_running", err |-> "nil"]
            /\ UNCHANGED logEntries
       ELSE \E outcome \in FetchOutcomes :
              CASE outcome \in {"transport_error", "non200"} ->
                     /\ usageStats' = KeepStats(usageStats, now')
                     /\ fetchRet' = [op |-> "FetchUsageStats", outcome |-> outcome, err |-> FetchErr(outcome)]
                     /\ UNCHANGED logEntries
                [] outcome \in {"read_error", "bad_json"} ->
                     /\ fetchRet' = [op |-> "FetchUsageStats", outcome |-> outcome, err |-> FetchErr(outcome)]
                     /\ UNCHANGED <<usageStats, logEntries>>
                [] outcome = "ok" ->
                     \E stats \in StatsPayloads :
                        /\ usageStats' = WithTime(stats, now')
                        /\ logEntries' = AddLog(logEntries, LogLevelDebug, "Updated usage statistics")
                        /\ fetchRet' = [op |-> "FetchUsageStats", outcome |-> outcome, err |-> "nil"]
    /\ UNCHANGED <<running, process, lastError, mutex, binaryInstalled, nRuns,
                   procState, waiter, stopWaiter, fg, ret, signals, sweeps,
                   lastTransition, crashed, authFiles, authDir, installVars, toolVars>>

\* ----------------------------------------------- ProxyManager.parseAuthFileName
\* A file name is held as its dash-separated segments and its extension:
\* "gemini-cli-user@x.com.json" is
\*   [segs |-> <<"gemini", "cli", "user@x.com">>, ext |-> ".json"]
\* and the string "gemini-cli" is the segments <<"gemini", "cli">>.
FileName(segs, ext) == [segs |-> segs, ext |-> ext]

ProviderGemini == "gemini"
ProviderClaude == "claude"
ProviderCodex == "codex"
ProviderQwen == "qwen"
ProviderIFlow == "iflow"
ProviderAntigravity == "antigravity"
ProviderVertex == "vertex"
ProviderKiro == "kiro"
ProviderGitHubCopilot == "github_copilot"
ProviderCursor == "cursor"

\* the map literal of parseAuthFileName, in the order the source lists it;
\* it is a Go map, which a range loop visits in no fixed order
providers ==
    << [prefix |-> <<"gemini", "cli">>,     prov |-> ProviderGemini],
       [prefix |-> <<"gemini">>,            prov |-> ProviderGemini],
       [prefix |-> <<"claude">>,            prov |-> ProviderClaude],
       [prefix |-> <<"codex">>,             prov |-> ProviderCodex],
       [prefix |-> <<"qwen">>,              prov |-> ProviderQwen],
       [prefix |-> <<"iflow">>,             prov |-> ProviderIFlow],
       [prefix |-> <<"antigravity">>,       prov |-> ProviderAntigravity],
       [prefix |-> <<"vertex">>,            prov |-> ProviderVertex],
       [prefix |-> <<"kiro">>,              prov |-> ProviderKiro],
       [prefix |-> <<"github", "copilot">>, prov |-> ProviderGitHubCopilot],
       [prefix |-> <<"copilot">>,           prov |-> ProviderGitHubCopilot],
       [prefix |-> <<"cursor">>,            prov |-> ProviderCursor] >>

\* strings.TrimSuffix(filename, ".json")
TrimSuffix(filename) ==
    IF filename.ext = ".json" THEN FileName(filename.segs, "") ELSE filename

\* strings.HasPrefix(name, prefix+"-"): the segments of the prefix, then a dash
HasPrefix(name, prefix) ==
    /\ Len(name.segs) > Len(prefix)
    /\ SubSeq(name.segs, 1, Len(prefix)) = prefix

\* strings.TrimPrefix(name, prefix+"-")
TrimPrefix(name, prefix) ==
    IF HasPrefix(name, prefix)
    THEN FileName(SubSeq(name.segs, Len(prefix) + 1, Len(name.segs)), name.ext)
    ELSE name

\* the table entries whose prefix the name starts with
Matches(name) == {i \in DOMAIN providers : HasPrefix(name, providers[i].prefix)}

\* the entries the range loop may meet first: any entry that matches
FirstMatch(matches) == matches

\* parseAuthFileName: the set of pairs a call may return
parseAuthFileName(filename) ==
    LET name == TrimSuffix(filename)
    IN  IF Matches(name) = {}
        THEN {[provider |-> ProviderGemini, email |-> name]}
        ELSE {[provider |-> providers[i].prov,
               email |-> TrimPrefix(name, providers[i].prefix)] :
                 i \in FirstMatch(Matches(name))}

\* ----------------------------------------------- ProxyManager.scanAuthDirectory
\* The entries the auth directory may hold, in the order os.ReadDir lists them
\* (sorted by file name)
DirEntries ==
    << [name |-> FileName(<<"claude", "dev@x.com">>, ".json"),
        isDir |-> FALSE, readable |-> TRUE],
       [name |-> FileName(<<"codex", "locked@x.com">>, ".json"),
        isDir |-> FALSE, readable |-> FALSE],
       [name |-> FileName(<<"gemini", "cli", "user@x.com">>, ".json"),
        isDir |-> FALSE, readable |-> TRUE],
       [name |-> FileName(<<"notes">>, ".txt"),
        isDir |-> FALSE, readable |-> TRUE],
       [name |-> FileName(<<"qwen", "backup">>, ".json"),
        isDir |-> TRUE, readable |-> TRUE],
       [name |-> FileName(<<"team@x.com">>, ".json"),
        isDir |-> FALSE, readable |-> TRUE] >>

\* the AuthFile the scan builds for one entry
AuthFile(filename, parsed) ==
    [id |-> filename, name |-> parsed.email, provider |-> parsed.provider,
     status |-> "active", email |-> parsed.email]

\* the entries the loop of the scan skips
Skipped(e) == e.isDir \/ e.name.ext # ".json" \/ ~e.readable

\* the lists the loop may build from entry k on
RECURSIVE scanFrom(_, _)
scanFrom(entries, k) ==
    IF k > Len(DirEntries) THEN { << >> }
    ELSE IF k \notin entries \/ Skipped(DirEntries[k]) THEN scanFrom(entries, k + 1)
    ELSE { <<AuthFile(DirEntries[k].name, parsed)>> \o rest :
              parsed \in parseAuthFileName(DirEntries[k].name),
              rest \in scanFrom(entries, k + 1) }

\* scanAuthDirectory: the set of lists a call may return
scanAuthDirectory(dir) ==
    IF ~dir.ok THEN { << >> } ELSE scanFrom(dir.entries, 1)

\* ------------------------------------------------- ProxyManager.FetchAuthFiles
\* the lists a 200 response of /auth-files may carry
\* an account of a response whose id is one token
Account(id, provider) ==
    [id |-> FileName(<<id>>, ""), name |-> FileName(<<id>>, ""),
     provider |-> provider, status |-> "active",
     email |-> FileName(<<"user@example.com">>, "")]

AuthPayloads ==
    { << >>,
      << [id |-> FileName(<<"auth", "1">>, ""), name |-> FileName(<<"Gemini Account 1">>, ""),
          provider |-> ProviderGemini, status |-> "active",
          email |-> FileName(<<"user@example.com">>, "")] >>,
      << Account("id40", ProviderClaude), Account("id60", ProviderCodex),
         Account("id61", ProviderQwen), Account("id65", ProviderGemini) >>,
      << Account("id85", ProviderKiro), Account("id81", ProviderCursor),
         Account("id80", ProviderVertex) >> }

\* what the failed request leaves in the cache
Fallback_KeepCached(cached, scanned) == cached

Fallback(cached, scanned) == scanned

\* what a 200 response leaves in the cache: the fetched list added to the
\* cached one
Replace_Merge(cached, fetched) == cached \o fetched

Replace(cached, fetched) == fetched

\* whether FetchAuthFiles sends the request
SendsRequest(isRunning) == isRunning

\* FetchAuthFiles, called by the ticker goroutine or a refresh key; the mutex
\* is held from entry to return
FetchAuthFiles ==
    /\ ~crashed
    /\ mutex = "free"
    /\ httpRequests < MaxFetch
    /\ httpRequests' = IF SendsRequest(running) THEN httpRequests + 1 ELSE httpRequests
    /\ IF ~running
       THEN /\ authFiles' \in scanAuthDirectory(authDir)
            /\ fetchRet' = [op |-> "FetchAuthFiles", outcome |-> "not_running", err |-> "nil"]
            /\ UNCHANGED logEntries
       ELSE \E outcome \in FetchOutcomes :
              CASE outcome \in {"transport_error", "non200"} ->
                     /\ \E scanned \in scanAuthDirectory(authDir) :
                           authFiles' = Fallback(authFiles, scanned)
                     /\ fetchRet' = [op |-> "FetchAuthFiles", outcome |-> outcome, err |-> FetchErr(outcome)]
                     /\ UNCHANGED logEntries
                [] outcome \in {"read_error", "bad_json"} ->
                     /\ fetchRet' = [op |-> "FetchAuthFiles", outcome |-> outcome, err |-> FetchErr(outcome)]
                     /\ UNCHANGED <<authFiles, logEntries>>
                [] outcome = "ok" ->
                     \E payload \in AuthPayloads :
                        /\ authFiles' = Replace(authFiles, payload)
                        /\ logEntries' = AddLog(logEntries, LogLevelDebug, "Fetched auth files from API")
                        /\ fetchRet' = [op |-> "FetchAuthFiles", outcome |-> outcome, err |-> "nil"]
    /\ UNCHANGED <<running, process, lastError, usageStats, mutex, binaryInstalled,
                   nRuns, procState, waiter, stopWaiter, fg, ret, signals, sweeps,
                   lastTransition, crashed, now, authDir, installVars, toolVars>>

\* the managed proxy or the user adds an entry to the auth directory
AuthDirAdd ==
    /\ authDir.ok
    /\ Cardinality(authDir.entries) < MaxFiles
    /\ \E k \in (1..Len(DirEntries)) \ authDir.entries :
          authDir' = [authDir EXCEPT !.entries = @ \cup {k}]
    /\ UNCHANGED <<running, process, lastError, logEntries, usageStats, mutex,
                   binaryInstalled, nRuns, procState, waiter, stopWaiter, fg, ret,
                   signals, sweeps, lastTransition, crashed, fetchRet, now,
                   authFiles, httpRequests, installVars, toolVars>>

\* the auth directory is removed: os.ReadDir fails from then on
AuthDirRemove ==
    /\ authDir.ok
    /\ authDir' = [ok |-> FALSE, entries |-> {}]
    /\ UNCHANGED <<running, process, lastError, logEntries, usageStats, mutex,
                   binaryInstalled, nRuns, procState, waiter, stopWaiter, fg, ret,
                   signals, sweeps, lastTransition, crashed, fetchRet, now,
                   authFiles, httpRequests, installVars, toolVars>>

\* ------------------------------------------- ProxyManager.DownloadAndInstallBinary
\* the supervisor's and the fetchers' state, which the installer leaves alone
otherVars == <<running, process, usageStats, mutex, nRuns, procState, waiter,
               stopWaiter, fg, ret, signals, sweeps, lastTransition, crashed,
               fetchRet, now, telemetryVars>>

\* os.Stat(pm.binaryPath) succeeds on any file, complete or not
IsBinaryInstalled(content) == content # "none"

\* the install key of the dashboard: refuses when a binary is installed or a
\* download is flagged, else logs and launches the install goroutine
InstallKey ==
    /\ ~crashed
    /\ mutex = "free"
    /\ nInstalls < MaxInstalls
    /\ nInstalls' = nInstalls + 1
    /\ IF IsBinaryInstalled(binaryContent)
       THEN /\ logEntries' = AddLog(logEntries, LogLevelInfo, "CLIProxyAPI is already installed")
            /\ inst' = [inst EXCEPT ![nInstalls'].pc = "refused"]
       ELSE IF isDownloading
       THEN /\ logEntries' = AddLog(logEntries, LogLevelInfo, "Download already in progress...")
            /\ inst' = [inst EXCEPT ![nInstalls'].pc = "refused"]
       ELSE /\ logEntries' = AddLog(logEntries, LogLevelInfo, "Starting CLIProxyAPI installation...")
            /\ inst' = [inst EXCEPT ![nInstalls'].pc = "launched"]
    /\ UNCHANGED <<toolVars, otherVars, lastError, binaryInstalled, isDownloading,
                   downloadProgress, binaryContent>>

\* any other caller of DownloadAndInstallBinary: the method itself checks
\* neither the installed binary nor pm.isDownloading
InstallCall ==
    /\ ~crashed
    /\ nInstalls < MaxInstalls
    /\ nInstalls' = nInstalls + 1
    /\ inst' = [inst EXCEPT ![nInstalls'].pc = "launched"]
    /\ UNCHANGED <<toolVars, otherVars, lastError, logEntries, binaryInstalled,
                   isDownloading, downloadProgress, binaryContent>>

\* the assignments at the head of DownloadAndInstallBinary
InstallBegin(i) ==
    /\ ~crashed
    /\ mutex = "free"
    /\ inst[i].pc = "launched"
    /\ isDownloading' = TRUE
    /\ downloadProgress' = 0
    /\ lastError' = ""
    /\ inst' = [inst EXCEPT ![i].pc = "log_start", ![i].milestones = <<0>>,
                            ![i].atCall = binaryContent]
    /\ UNCHANGED <<toolVars, otherVars, logEntries, binaryInstalled, binaryContent, nInstalls>>

\* pm.AddLogExternal(LogLevelInfo, "Starting CLIProxyAPI download...")
InstallLogStart(i) ==
    /\ ~crashed
    /\ mutex = "free"
    /\ inst[i].pc = "log_start"
    /\ logEntries' = AddLog(logEntries, LogLevelInfo, "Starting CLIProxyAPI download...")
    /\ inst' = [inst EXCEPT ![i].pc = "fetch"]
    /\ UNCHANGED <<toolVars, otherVars, lastError, binaryInstalled, isDownloading,
                   downloadProgress, binaryContent, nInstalls>>

\* a stage failed: pm.lastError = err.Error(), under the mutex
StageFails(i, err) ==
    /\ lastError' = err
    /\ inst' = [inst EXCEPT ![i].pc = "log_err", ![i].err = err]
    /\ UNCHANGED downloadProgress

\* a stage succeeded: pm.downloadProgress = tenths / 10, under the mutex
Milestone(i, tenths, pc) ==
    /\ downloadProgress' = tenths
    /\ inst' = [inst EXCEPT ![i].pc = pc, ![i].milestones = Append(@, tenths)]
    /\ UNCHANGED lastError

\* fetchLatestRelease returns, then the critical section that follows it
InstallFetchRelease(i) ==
    /\ ~crashed
    /\ mutex = "free"
    /\ inst[i].pc = "fetch"
    /\ \/ StageFails(i, "fetch release failed")
       \/ Milestone(i, 1, "find")
    /\ UNCHANGED <<toolVars, otherVars, logEntries, binaryInstalled, isDownloading,
                   binaryContent, nInstalls>>

\* findCompatibleAsset returns, then the critical section that follows it
InstallFindAsset(i) ==
    /\ ~crashed
    /\ mutex = "free"
    /\ inst[i].pc = "find"
    /\ \/ /\ StageFails(i, "no compatible binary found")
          /\ UNCHANGED logEntries
       \/ /\ logEntries' = AddLog(logEntries, LogLevelInfo, "Found asset")
          /\ inst' = [inst EXCEPT ![i].pc = "download"]
          /\ UNCHANGED <<lastError, downloadProgress>>
    /\ UNCHANGED <<toolVars, otherVars, binaryInstalled, isDownloading, binaryContent, nInstalls>>

\* downloadAsset: the request fails, the status is not 200 or the body breaks
\* off (no milestone), or all bytes arrive (0.6)
InstallDownload(i) ==
    /\ ~crashed
    /\ mutex = "free"
    /\ inst[i].pc = "download"
    /\ \/ StageFails(i, "download failed")
       \/ Milestone(i, 6, "confirm")
    /\ UNCHANGED <<toolVars, otherVars, logEntries, binaryInstalled, isDownloading,
                   binaryContent, nInstalls>>

\* pm.downloadProgress = 0.7
InstallConfirm(i) ==
    /\ ~crashed
    /\ mutex = "free"
    /\ inst[i].pc = "confirm"
    /\ Milestone(i, 7, "stage")
    /\ UNCHANGED <<toolVars, otherVars, logEntries, binaryInstalled, isDownloading,
                   binaryContent, nInstalls>>

\* ------------------------------------------------ ProxyManager.extractAndInstall
\* `defer os.RemoveAll(tempDir)`, run when extractAndInstall returns
DeferredRemoveAll_Leaks(tempDir) == tempDir

DeferredRemoveAll(tempDir) == IF tempDir = "exists" THEN "removed" ELSE tempDir

\* the archive shapes extractAndInstall tells apart by the asset's suffix
AssetKinds == {"raw", "tar.gz", "zip"}

\* the errors extractAndInstall can return before it touches the install path
StagingErrors(kind) ==
    {"write temp file failed", "read staged binary failed"} \cup
    (IF kind = "raw" THEN {}
     ELSE {"extract archive failed", "could not find binary in archive"})

\* extractAndInstall returned err: the deferred removal, then the critical
\* section of DownloadAndInstallBinary that records the error
ExtractFails(i, err, tempDir) ==
    /\ lastError' = err
    /\ inst' = [inst EXCEPT ![i].pc = "log_err", ![i].err = err,
                            ![i].tempDir = DeferredRemoveAll(tempDir)]

\* extractAndInstall up to os.ReadFile(binaryPath): everything happens in
\* the temporary directory
InstallStage(i) ==
    /\ ~crashed
    /\ mutex = "free"
    /\ inst[i].pc = "stage"
    /\ \/ ExtractFails(i, "create temp dir failed", "none")
       \/ \E kind \in AssetKinds : \E err \in StagingErrors(kind) :
             ExtractFails(i, err, "exists")
       \/ /\ inst' = [inst EXCEPT ![i].pc = "remove_old", ![i].tempDir = "exists"]
          /\ UNCHANGED lastError
    /\ UNCHANGED <<toolVars, otherVars, logEntries, binaryInstalled, isDownloading,
                   downloadProgress, binaryContent, nInstalls>>

\* os.Remove(pm.binaryPath); its error is ignored
InstallRemoveOld(i) ==
    /\ ~crashed
    /\ inst[i].pc = "remove_old"
    /\ \E removed \in BOOLEAN :
          binaryContent' = IF removed THEN "none" ELSE binaryContent
    /\ binaryInstalled' = IsBinaryInstalled(binaryContent')
    /\ inst' = [inst EXCEPT ![i].pc = "write_new", ![i].touched = TRUE]
    /\ UNCHANGED <<toolVars, otherVars, lastError, logEntries, isDownloading,
                   downloadProgress, nInstalls>>

\* what os.WriteFile(pm.binaryPath, ...) can leave at the path: the whole
\* file, what was there (the open failed), or a truncated file
WriteFileResults(content) == {"new", content, "partial"}

\* os.WriteFile(pm.binaryPath, binaryData, 0755) and os.Chmod
InstallWriteNew(i) ==
    /\ ~crashed
    /\ inst[i].pc = "write_new"
    /\ \E written \in WriteFileResults(binaryContent) :
          /\ binaryContent' = written
          /\ inst' = IF written = "new"
                     THEN [inst EXCEPT ![i].pc = "log_installed"]
                     ELSE [inst EXCEPT ![i].pc = "set_err",
                                       ![i].err = "write binary failed",
                                       ![i].tempDir = DeferredRemoveAll(@)]
    /\ binaryInstalled' = IsBinaryInstalled(binaryContent')
    /\ UNCHANGED <<toolVars, otherVars, lastError, logEntries, isDownloading,
                   downloadProgress, nInstalls>>

\* the critical section that records the error of the final write
InstallSetErr(i) ==
    /\ ~crashed
    /\ mutex = "free"
    /\ inst[i].pc = "set_err"
    /\ lastError' = inst[i].err
    /\ inst' = [inst EXCEPT ![i].pc = "log_err"]
    /\ UNCHANGED <<toolVars, otherVars, logEntries, binaryInstalled, isDownloading,
                   downloadProgress, binaryContent, nInstalls>>

\* pm.AddLogExternal(LogLevelInfo, "Binary installed to ..."), then the return
\* of extractAndInstall
InstallLogInstalled(i) ==
    /\ ~crashed
    /\ mutex = "free"
    /\ inst[i].pc = "log_installed"
    /\ logEntries' = AddLog(logEntries, LogLevelInfo, "Binary installed")
    /\ inst' = [inst EXCEPT ![i].pc = "finish", ![i].tempDir = DeferredRemoveAll(@)]
    /\ UNCHANGED <<toolVars, otherVars, lastError, binaryInstalled, isDownloading,
                   downloadProgress, binaryContent, nInstalls>>

\* pm.downloadProgress = 1.0
InstallFinish(i) ==
    /\ ~crashed
    /\ mutex = "free"
    /\ inst[i].pc = "finish"
    /\ Milestone(i, 10, "log_success")
    /\ UNCHANGED <<toolVars, otherVars, logEntries, binaryInstalled, isDownloading,
                   binaryContent, nInstalls>>

\* pm.AddLogExternal(LogLevelInfo, "CLIProxyAPI installed successfully!")
InstallLogSuccess(i) ==
    /\ ~crashed
    /\ mutex = "free"
    /\ inst[i].pc = "log_success"
    /\ logEntries' = AddLog(logEntries, LogLevelInfo, "CLIProxyAPI installed successfully!")
    /\ inst' = [inst EXCEPT ![i].pc = "end"]
    /\ UNCHANGED <<toolVars, otherVars, lastError, binaryInstalled, isDownloading,
                   downloadProgress, binaryContent, nInstalls>>

\* the message of the error-level entry a failed stage logs
FailureLog(err) ==
    CASE err = "fetch release failed" -> "Failed to fetch release info: fetch release failed"
      [] err = "no compatible binary found" -> "no compatible binary found"
      [] err = "download failed" -> "Failed to download: download failed"
      [] OTHER -> "Failed to install"

\* pm.AddLogExternal(LogLevelError, ...) of the failing branch
InstallLogErr(i) ==
    /\ ~crashed
    /\ mutex = "free"
    /\ inst[i].pc = "log_err"
    /\ logEntries' = AddLog(logEntries, LogLevelError, FailureLog(inst[i].err))
    /\ inst' = [inst EXCEPT ![i].pc = "end"]
    /\ UNCHANGED <<toolVars, otherVars, lastError, binaryInstalled, isDownloading,
                   downloadProgress, binaryContent, nInstalls>>

\* the deferred pm.isDownloading = false; DownloadAndInstallBinary returns
InstallEnd(i) ==
    /\ ~crashed
    /\ mutex = "free"
    /\ inst[i].pc = "end"
    /\ isDownloading' = FALSE
    /\ inst' = [inst EXCEPT ![i].pc = IF inst[i].err = "none" THEN "done" ELSE "returned"]
    /\ UNCHANGED <<toolVars, otherVars, lastError, logEntries, binaryInstalled,
                   downloadProgress, binaryContent, nInstalls>>

\* the install goroutine of the dashboard logs the error it got
InstallFailedLog(i) ==
    /\ ~crashed
    /\ mutex = "free"
    /\ inst[i].pc = "returned"
    /\ logEntries' = AddLog(logEntries, LogLevelError, "Installation failed")
    /\ inst' = [inst EXCEPT ![i].pc = "done"]
    /\ UNCHANGED <<toolVars, otherVars, lastError, binaryInstalled, isDownloading,
                   downloadProgress, binaryContent, nInstalls>>

\* one step of install goroutine i
InstallStep(i) ==
    \/ InstallBegin(i)
    \/ InstallLogStart(i)
    \/ InstallFetchRelease(i)
    \/ InstallFindAsset(i)
    \/ InstallDownload(i)
    \/ InstallConfirm(i)
    \/ InstallStage(i)
    \/ InstallRemoveOld(i)
    \/ InstallWriteNew(i)
    \/ InstallSetErr(i)
    \/ InstallLogInstalled(i)
    \/ InstallFinish(i)
    \/ InstallLogSuccess(i)
    \/ InstallLogErr(i)
    \/ InstallEnd(i)
    \/ InstallFailedLog(i)

\* ----------------------------------------------- ProxyManager.findCompatibleAsset
\* A name is a sequence of tokens, each token a piece of the name that no
\* search pattern cuts in two; a pattern is a sequence of tokens as well.

\* strings.ToLower of a token (ASCII letters only)
ToLowerToken(t) ==
    CASE t = "App" -> "app"
      [] t = "Linux" -> "linux"
      [] t = "AMD64" -> "amd64"
      [] t = "Proxy" -> "proxy"
      [] t = "CLIProxyAPI" -> "cliproxyapi"
      [] OTHER -> t

\* strings.ToLower
ToLower(name) == [k \in 1..Len(name) |-> ToLowerToken(name[k])]

\* strings.Contains
Contains(name, pattern) ==
    \E k \in 0..(Len(name) - Len(pattern)) :
        SubSeq(name, k + 1, k + Len(pattern)) = pattern

\* runtime.GOOS and runtime.GOARCH of the builds considered
GOOS == {"linux", "darwin", "windows"}
GOARCH == {"amd64", "arm64"}

\* fmt.Sprintf("%s_%s", platform, arch)
targetPattern(goos, goarch) == <<goos, "_", goarch>>

\* the skip list, in the order the code builds it
skipPatterns(goos) ==
    <<"windows", "linux", "checksum", ".sha256", ".md5">>
        \o (IF goos # "linux" THEN <<"linux">> ELSE << >>)
        \o (IF goos # "darwin" THEN <<"darwin">> ELSE << >>)

\* the inner loop: some skip pattern occurs in the name and not in the target
shouldSkip(name, goos, goarch) ==
    \E k \in 1..Len(skipPatterns(goos)) :
        /\ Contains(name, <<skipPatterns(goos)[k]>>)
        /\ ~Contains(targetPattern(goos, goarch), <<skipPatterns(goos)[k]>>)

\* nil, the result of a search that found nothing
NoAsset == 0

\* the outer loop from asset k on: the index of the asset returned
RECURSIVE findFrom(_, _, _, _)
findFrom(assets, k, goos, goarch) ==
    IF k > Len(assets) THEN NoAsset
    ELSE LET name == ToLower(assets[k])
         IN  IF shouldSkip(name, goos, goarch)
             THEN findFrom(assets, k + 1, goos, goarch)
             ELSE IF Contains(name, targetPattern(goos, goarch))
                  THEN k
                  ELSE findFrom(assets, k + 1, goos, goarch)

\* the same search keeping the last asset that passes instead of the first
findCompatibleAsset_LastMatch(assets, goos, goarch) ==
    LET passes == {k \in 1..Len(assets) :
                      /\ ~shouldSkip(ToLower(assets[k]), goos, goarch)
                      /\ Contains(ToLower(assets[k]), targetPattern(goos, goarch))}
    IN  IF passes = {} THEN NoAsset
        ELSE CHOOSE k \in passes : \A j \in passes : j <= k

findCompatibleAsset(assets, goos, goarch) == findFrom(assets, 1, goos, goarch)

\* asset names a release feed may list
AssetWindowsZip == <<"app", "_", "windows", "_", "amd64", ".zip">>
AssetLinuxTarGz == <<"app", "_", "linux", "_", "amd64", ".tar.gz">>
AssetLinuxMixedCase == <<"App", "_", "Linux", "_", "AMD64", ".tar.gz">>
AssetDarwinTarGz == <<"app", "_", "darwin", "_", "arm64", ".tar.gz">>
AssetLinuxSha256 == <<"app", "_", "linux", "_", "amd64", ".tar.gz", ".sha256">>
AssetChecksums == <<"checksum", "s", ".txt">>
AssetLinuxSig == <<"app", "_", "linux", "_", "amd64", ".tar.gz", ".sig">>
AssetCross == <<"cross", "_", "windows", "_", "linux", "_", "amd64", ".zip">>

AssetNames == {AssetWindowsZip, AssetLinuxTarGz, AssetLinuxMixedCase,
               AssetDarwinTarGz, AssetLinuxSha256, AssetChecksums,
               AssetLinuxSig, AssetCross}

\* sequences of at most n distinct members of S
DistinctSeqs(S, n) ==
    UNION {{s \in [1..m -> S] : \A i, j \in 1..m : i # j => s[i] # s[j]} : m \in 0..n}

\* release.Assets, in feed order
Feeds == DistinctSeqs(AssetNames, MaxAssets)

\* everything but `call`
exceptCall == <<otherVars, installVars, lastError, logEntries, binaryInstalled,
                quotaInfos, heap, logSlice, returned, termSent, readerVars, portVars>>

\* DownloadAndInstallBinary from the search for the asset to the request for
\* its download: no asset is an error and nothing is downloaded
ResolveAsset ==
    \E goos \in GOOS, goarch \in GOARCH, assets \in Feeds :
        LET asset == findCompatibleAsset(assets, goos, goarch)
        IN  /\ call = NoCall
            /\ call' = [op |-> "findCompatibleAsset",
                        goos |-> goos, goarch |-> goarch, assets |-> assets,
                        asset |-> asset,
                        err |-> IF asset = NoAsset
                                THEN "no compatible binary found"
                                ELSE "none",
                        downloads |-> IF asset = NoAsset
                                      THEN << >>
                                      ELSE <<assets[asset]>>]
            /\ UNCHANGED exceptCall

\* ------------------------------------- ProxyManager.extractTarGz / extractZip
\* An archive entry: a directory or a regular file, the directory of its
\* name ("" for the top of the archive), its base name as stem and suffix,
\* and whether its mode has an executable bit.
Entry(kind, dir, stem, suffix, exec) ==
    [kind |-> kind, dir |-> dir, stem |-> stem, suffix |-> suffix, exec |-> exec]

binaryNames == <<"CLIProxyAPI", "cli-proxy-api", "cli-proxy-api-plus", "proxy">>

\* strings.EqualFold on ASCII names
EqualFold(s, t) == ToLowerToken(s) = ToLowerToken(t)

\* the loop over binaryNames
NameMatches(entry) ==
    /\ entry.suffix = ""
    /\ \E k \in 1..Len(binaryNames) : EqualFold(entry.stem, binaryNames[k])

\* the executable fallback applies to this entry
Executable(entry) == entry.exec /\ entry.suffix # ".sh"

\* binaryPath after the entry at index k has been written: a name match
\* takes the entry whatever was chosen before; the fallback takes it only
\* when nothing is chosen yet
chooseBinary_FirstWins(binaryPath, k, entry) ==
    IF binaryPath = 0 /\ (NameMatches(entry) \/ Executable(entry))
    THEN k
    ELSE binaryPath

chooseBinary(binaryPath, k, entry) ==
    IF NameMatches(entry) THEN k
    ELSE IF binaryPath = 0 /\ Executable(entry) THEN k
         ELSE binaryPath

\* os.Create(target) fails when the directory of target does not exist
CreateFails(entry, dirs) == entry.dir # "" /\ entry.dir \notin dirs

\* the loop of extractTarGz from entry k on: directories are made, regular
\* files written and examined; dirs are the directories made so far
RECURSIVE tarFrom(_, _, _, _)
tarFrom(entries, k, binaryPath, dirs) ==
    IF k > Len(entries) THEN [binaryPath |-> binaryPath, err |-> "none"]
    ELSE IF entries[k].kind = "dir"
         THEN tarFrom(entries, k + 1, binaryPath, dirs \cup {entries[k].stem})
         ELSE IF CreateFails(entries[k], dirs)
              THEN [binaryPath |-> 0, err |-> "create"]
              ELSE tarFrom(entries, k + 1,
                           chooseBinary(binaryPath, k, entries[k]), dirs)

extractTarGz(entries) == tarFrom(entries, 1, 0, {})

\* the loop of extractZip from entry k on
RECURSIVE zipFrom(_, _, _, _)
zipFrom(entries, k, binaryPath, dirs) ==
    IF k > Len(entries) THEN [binaryPath |-> binaryPath, err |-> "none"]
    ELSE IF entries[k].kind = "dir"
         THEN zipFrom(entries, k + 1, binaryPath, dirs \cup {entries[k].stem})
         ELSE IF CreateFails(entries[k], dirs)
              THEN [binaryPath |-> 0, err |-> "create"]
              ELSE zipFrom(entries, k + 1,
                           chooseBinary(binaryPath, k, entries[k]), dirs)

extractZip(entries) == zipFrom(entries, 1, 0, {})

\* entries an archive may hold
ArchiveEntries ==
    {Entry("file", "", "cli-proxy-api", "", TRUE),
     Entry("file", "", "Proxy", "", FALSE),
     Entry("file", "", "server", "", TRUE),
     Entry("file", "", "helper", "", TRUE),
     Entry("file", "", "install", ".sh", TRUE),
     Entry("file", "", "README", ".md", FALSE),
     Entry("dir", "", "bin", "", TRUE),
     Entry("dir", "", "proxy", "", TRUE),
     Entry("file", "bin", "CLIProxyAPI", "", TRUE)}

Archives == DistinctSeqs(ArchiveEntries, MaxEntries)

\* extractAndInstall from the dispatch on the asset's suffix to the check
\* of binaryPath
ExtractArchive ==
    \E suffix \in {".tar.gz", ".zip"}, entries \in Archives :
        LET r == IF suffix = ".tar.gz" THEN extractTarGz(entries)
                                       ELSE extractZip(entries)
        IN  /\ call = NoCall
            /\ call' = [op |-> "extract", suffix |-> suffix, entries |-> entries,
                        binaryPath |-> r.binaryPath,
                        err |-> IF r.err # "none" THEN r.err
                                ELSE IF r.binaryPath = 0
                                     THEN "could not find binary in archive"
                                     ELSE "none"]
            /\ UNCHANGED exceptCall

\* --------------------------------------------------- ProxyManager.GetQuotaInfos
\* len of a piece of a name, in bytes; "idN" stands for an id of N bytes
TokenLen(t) ==
    CASE t = "" -> 0
      [] t = "1" -> 1
      [] t = "cli" -> 3
      [] t \in {"auth", "qwen", ".txt"} -> 4
      [] t \in {"codex", "notes", ".json"} -> 5
      [] t \in {"claude", "gemini", "backup"} -> 6
      [] t = "dev@x.com" -> 9
      [] t \in {"user@x.com", "team@x.com"} -> 10
      [] t = "locked@x.com" -> 12
      [] t = "id40" -> 40
      [] t = "id60" -> 60
      [] t = "id61" -> 61
      [] t = "id65" -> 65
      [] t = "id80" -> 80
      [] t = "id81" -> 81
      [] t = "id85" -> 85

\* the bytes of the first k segments and of the dashes between them
RECURSIVE SegsLen(_, _)
SegsLen(segs, k) ==
    IF k = 0 THEN 0
    ELSE SegsLen(segs, k - 1) + TokenLen(segs[k]) + (IF k > 1 THEN 1 ELSE 0)

\* len(auth.ID)
StrLen(name) == SegsLen(name.segs, Len(name.segs)) + TokenLen(name.ext)

\* float64(used) / float64(limit) * 100: used is a multiple of 100 and limit
\* is 10000, so the quotient is a whole number; the float64 result is that
\* number when it is 70 or 90 and differs from it by less than one otherwise
UsagePercent(used, limit) == (used * 100) \div limit

\* the thresholds, with the bounds themselves counted as crossed
QuotaStatus_Inclusive(percent) ==
    IF percent >= 90 THEN "exceeded"
    ELSE IF percent >= 70 THEN "warning"
         ELSE "ok"

QuotaStatus(percent) ==
    IF percent > 90 THEN "exceeded"
    ELSE IF percent > 70 THEN "warning"
         ELSE "ok"

\* the body of the loop: the QuotaInfo of one account, read at time t
QuotaInfo(auth, t) ==
    LET used == 1000 + StrLen(auth.id) * 100
        limit == 10000
        percent == UsagePercent(used, limit)
    IN  [accountID |-> auth.id, accountName |-> auth.name,
         provider |-> auth.provider, used |-> used, limit |-> limit,
         usagePercent |-> percent, status |-> QuotaStatus(percent),
         resetTime |-> t + 24]

\* the list built with the accounts taken last to first
QuotaInfos_Reversed(auths, t) ==
    [k \in 1..Len(auths) |-> QuotaInfo(auths[Len(auths) + 1 - k], t)]

\* the loop over pm.authFiles
QuotaInfos(auths, t) == [k \in 1..Len(auths) |-> QuotaInfo(auths[k], t)]

\* GetQuotaInfos, called by the quota screen; it takes the read lock
GetQuotaInfos ==
    /\ ~crashed
    /\ mutex = "free"
    /\ call' = [op |-> "GetQuotaInfos", auths |-> authFiles, stored |-> quotaInfos,
                out |-> QuotaInfos(authFiles, now)]
    /\ UNCHANGED exceptCall

\* --------------------------------------------------- ProxyManager.FetchQuotaInfo
\* the lists a 200 response of /quotas may carry
QuotaPayloads ==
    { << >>,
      << [accountID |-> FileName(<<"auth", "1">>, ""),
          accountName |-> FileName(<<"Gemini Account 1">>, ""),
          provider |-> ProviderGemini, used |-> 9999, limit |-> 10000,
          usagePercent |-> 99, status |-> "exceeded", resetTime |-> 0] >> }

\* FetchQuotaInfo; the mutex is held from entry to return
FetchQuotaInfo ==
    /\ ~crashed
    /\ mutex = "free"
    /\ httpRequests < MaxFetch
    /\ httpRequests' = IF running THEN httpRequests + 1 ELSE httpRequests
    /\ IF ~running
       THEN /\ fetchRet' = [op |-> "FetchQuotaInfo", outcome |-> "not_running", err |-> "nil"]
            /\ UNCHANGED quotaInfos
       ELSE \E outcome \in FetchOutcomes :
              CASE outcome \in {"transport_error", "non200"} ->
                     /\ fetchRet' = [op |-> "FetchQuotaInfo", outcome |-> outcome, err |-> FetchErr(outcome)]
                     /\ UNCHANGED quotaInfos
                [] outcome \in {"read_error", "bad_json"} ->
                     /\ fetchRet' = [op |-> "FetchQuotaInfo", outcome |-> outcome, err |-> FetchErr(outcome)]
                     /\ UNCHANGED quotaInfos
                [] outcome = "ok" ->
                     /\ quotaInfos' \in QuotaPayloads
                     /\ fetchRet' = [op |-> "FetchQuotaInfo", outcome |-> outcome, err |-> "nil"]
    /\ UNCHANGED <<running, process, lastError, logEntries, usageStats, mutex,
                   binaryInstalled, nRuns, procState, waiter, stopWaiter, fg, ret,
                   signals, sweeps, lastTransition, crashed, now, authFiles, authDir,
                   installVars, call, heap, logSlice, returned, termSent, readerVars,
                   portVars>>

\* ---------------------------------------------------- ProxyManager.AddLogExternal
AddLogExternal(level, message) ==
    /\ UNCHANGED <<telemetryVars, installVars, toolVars>>
    /\ ~crashed
    /\ mutex = "free"
    /\ logEntries' = AddLog(logEntries, level, message)
    /\ UNCHANGED <<running, process, lastError, usageStats, mutex, binaryInstalled,
                   nRuns, procState, waiter, stopWaiter, fg, ret, signals, sweeps,
                   lastTransition, crashed, fetchRet, now>>

\* ------------------------------------------------------------- specification
\* The supervisor: Start, Stop, their goroutines and the managed processes
Next ==
    \/ StartCall
    \/ StartProbe
    \/ StopCall
    \/ StopSelectDone
    \/ StopSelectTimeout
    \/ killProcessOnPort
    \/ StopFinish
    \/ BinaryChange
    \/ \E p \in Pids : WaiterCheck(p)
    \/ \E p \in Pids : WaiterDeref(p)
    \/ \E p \in Pids : WaiterWait(p)
    \/ \E p \in Pids : WaiterExit(p)
    \/ \E p \in Pids : StopWaiterRead(p)
    \/ \E p \in Pids : StopWaiterWait(p)
    \/ \E p \in Pids : ProcessExit(p)

Spec == Init /\ [][Next]_vars


\* ------------------------------------------------- specification of the fetchers
\* The state a successful first Start leaves: process 1 runs, its exit waiter
\* is blocked in Wait (StartCall, WaiterCheck, WaiterDeref, StartProbe from Init)
RunningState ==
    /\ running = TRUE
    /\ process = 1
    /\ lastError = ""
    /\ logEntries = << LogEntry(LogLevelInfo, "Starting proxy server"),
                       LogEntry(LogLevelInfo, "Proxy server started successfully") >>
    /\ usageStats = ZeroStats
    /\ mutex = "free"
    /\ binaryInstalled = TRUE
    /\ nRuns = 1
    /\ procState = [p \in Pids |-> IF p = 1 THEN "alive" ELSE "unused"]
    /\ waiter = [p \in Pids |-> IF p = 1
                                THEN [pc |-> "wait", target |-> 1, err |-> FALSE]
                                ELSE NoGoroutine]
    /\ stopWaiter = [p \in Pids |-> NoGoroutine]
    /\ fg = Idle
    /\ ret = [op |-> "Start", err |-> "nil"]
    /\ signals = {}
    /\ sweeps = 0
    /\ lastTransition = [op |-> "start", run |-> 1]
    /\ crashed = FALSE
    /\ fetchRet = [op |-> "none", outcome |-> "none", err |-> "none"]
    /\ now = 0
    /\ TelemetryInit
    /\ InstallInit
    /\ ToolInit

\* The fetchers start from the constructed manager or from a running one
InitFetch == Init \/ RunningState

NextFetch == FetchUsageStats \/ FetchAuthFiles \/ AuthDirAdd \/ AuthDirRemove

SpecFetch == InitFetch /\ [][NextFetch]_vars

\* ----------------------------------------------- specification of the installer
\* The install key and the install goroutines it launches
NextInstall ==
    \/ InstallKey
    \/ InstallCall
    \/ \E i \in Installs : InstallStep(i)

SpecInstall == Init /\ [][NextInstall]_vars

\* ------------------------------------------------------ specification of the log
\* a log as n appends of the foreground leave it: entries numbered 1..n
Prefill(n) == [i \in 1..n |-> LogEntry(LogLevelInfo, i)]

\* the number of the next entry: entries are numbered in append order
NextSerial == IF logEntries = << >> THEN 1
              ELSE logEntries[Len(logEntries)].message + 1

\* The log is two, one or no entries short of its capacity
InitLog ==
    /\ running = FALSE
    /\ process = NoProcess
    /\ lastError = ""
    /\ logEntries \in {Prefill(n) : n \in (maxLogEntries - 2)..maxLogEntries}
    /\ usageStats = ZeroStats
    /\ mutex = "free"
    /\ binaryInstalled = FALSE
    /\ nRuns = 0
    /\ procState = [p \in Pids |-> "unused"]
    /\ waiter = [p \in Pids |-> NoGoroutine]
    /\ stopWaiter = [p \in Pids |-> NoGoroutine]
    /\ fg = Idle
    /\ ret = NoRet
    /\ signals = {}
    /\ sweeps = 0
    /\ lastTransition = [op |-> "none", run |-> NoProcess]
    /\ crashed = FALSE
    /\ fetchRet = [op |-> "none", outcome |-> "none", err |-> "none"]
    /\ now = 0
    /\ TelemetryInit
    /\ InstallInit
    /\ ToolInit

\* an append of the foreground (the AddLogExternal calls of src/main.go)
ForegroundLog ==
    /\ NextSerial <= maxLogEntries + MaxAppends
    /\ \E level \in {LogLevelInfo, LogLevelWarn, LogLevelError} :
          AddLogExternal(level, NextSerial)

\* an append of a background task (the output readers Start launches)
BackgroundLog ==
    /\ NextSerial <= maxLogEntries + MaxAppends
    /\ \E level \in {LogLevelDebug, LogLevelWarn} :
          AddLogExternal(level, NextSerial)

NextLog == ForegroundLog \/ BackgroundLog

SpecLog == InitLog /\ [][NextLog]_vars


\* ------------------------------------------- the memory behind pm.logEntries
\* pm.logEntries is a slice: a header [arr, off, len] over a backing array
\* heap[arr]; the cells of the array beyond the slice are its spare capacity.
\* GetLogs returns the header, not a copy of the cells.

\* the zero value of LogEntry, held by cells never written
ZeroEntry == LogEntry("", 0)

\* the entries seen through a slice header
View(h, sl) == SubSeq(h[sl.arr], sl.off + 1, sl.off + sl.len)

\* cap(slice)
Cap(h, sl) == Len(h[sl.arr]) - sl.off

\* append(pm.logEntries, entry): with spare capacity the entry is written in
\* the cell after the slice; without, the entries are copied to a new array,
\* whose capacity the runtime chooses
AppendSlice(h, sl, entry) ==
    IF sl.len < Cap(h, sl)
    THEN { [heap |-> [h EXCEPT ![sl.arr][sl.off + sl.len + 1] = entry],
            slice |-> [sl EXCEPT !.len = @ + 1]] }
    ELSE { [heap |-> Append(h, View(h, sl) \o <<entry>>
                                \o [i \in 1..spare |-> ZeroEntry]),
            slice |-> [arr |-> Len(h) + 1, off |-> 0, len |-> sl.len + 1]] :
           spare \in 0..MaxSpare }

\* the eviction done by moving the kept entries to the front of the array
Evict_ShiftDown(h, sl) ==
    IF sl.len > maxLogEntries
    THEN [heap |-> [h EXCEPT ![sl.arr] =
                      [i \in 1..Len(@) |->
                          IF i > sl.off /\ i <= sl.off + maxLogEntries
                          THEN @[i + (sl.len - maxLogEntries)]
                          ELSE @[i]]],
          slice |-> [sl EXCEPT !.len = maxLogEntries]]
    ELSE [heap |-> h, slice |-> sl]

\* pm.logEntries = pm.logEntries[len-maxLogEntries:]: a new header over the
\* same array; no cell is written
Evict(h, sl) ==
    IF sl.len > maxLogEntries
    THEN [heap |-> h,
          slice |-> [sl EXCEPT !.off = @ + (sl.len - maxLogEntries),
                               !.len = maxLogEntries]]
    ELSE [heap |-> h, slice |-> sl]

\* everything but the log and its memory
exceptLog == <<otherVars, installVars, lastError, binaryInstalled, call, quotaInfos,
               termSent, readerVars, portVars>>

\* AddLog, with the memory of the slice
AddLogInMemory ==
    /\ ~crashed
    /\ mutex = "free"
    /\ NextSerial <= maxLogEntries + MaxAppends
    /\ \E level \in {LogLevelInfo, LogLevelError} :
          \E r \in AppendSlice(heap, logSlice, LogEntry(level, NextSerial)) :
              /\ Len(r.heap) <= MaxArrays
              /\ heap' = Evict(r.heap, r.slice).heap
              /\ logSlice' = Evict(r.heap, r.slice).slice
              /\ logEntries' = AddLog(logEntries, level, NextSerial)
    /\ UNCHANGED <<exceptLog, returned>>

\* the log ClearLogs leaves: an empty one, whatever it held
ClearedLog_KeepLast(log) == IF log = << >> THEN log ELSE <<log[Len(log)]>>

ClearedLog(log) == << >>

\* ClearLogs: pm.logEntries = []LogEntry{}
ClearLogs ==
    /\ ~crashed
    /\ mutex = "free"
    /\ Len(heap) < MaxArrays
    /\ heap' = Append(heap, << >>)
    /\ logSlice' = [arr |-> Len(heap) + 1, off |-> 0, len |-> 0]
    /\ logEntries' = ClearedLog(logEntries)
    /\ UNCHANGED <<exceptLog, returned>>

\* GetLogs: the caller receives the slice header; `seen` records what the
\* caller read through it on return
GetLogs ==
    /\ ~crashed
    /\ mutex = "free"
    /\ Cardinality(returned) < MaxReturned
    /\ returned' = returned \cup {[hdr |-> logSlice, seen |-> View(heap, logSlice)]}
    /\ UNCHANGED <<exceptLog, logEntries, heap, logSlice>>

\* ------------------------------------------ specification of the log's memory
\* Appends, clears and reads of a log that starts near its capacity
NextSnapshot == AddLogInMemory \/ ClearLogs \/ GetLogs

SpecSnapshot == InitLog /\ [][NextSnapshot]_vars

\* ------------------------------------ specification of the installer's helpers
\* The searches of the installer, each applied once to every input within
\* the bounds.
NextTools == ResolveAsset \/ ExtractArchive

SpecTools == Init /\ [][NextTools]_vars

\* ------------------------------------------------ specification of the quotas
\* The account fetches, the quota fetch and the quota screen's read
NextQuota == FetchAuthFiles \/ AuthDirAdd \/ FetchQuotaInfo \/ GetQuotaInfos

SpecQuota == InitFetch /\ [][NextQuota]_vars

\* ------------------------------------------ the output readers Start launches
\* A stream is a sequence of bytes; the bytes that matter to the readers are
\* the white space that strings.TrimSpace removes ("\n" here) and the others
\* ("x").

\* strings.TrimSpace: the text without its leading and trailing white space
RECURSIVE TrimLeft(_)
TrimLeft(text) ==
    IF text # << >> /\ Head(text) = "\n" THEN TrimLeft(Tail(text)) ELSE text

RECURSIVE TrimRight(_)
TrimRight(text) ==
    IF text # << >> /\ text[Len(text)] = "\n"
    THEN TrimRight(SubSeq(text, 1, Len(text) - 1))
    ELSE text

TrimSpace(text) == TrimRight(TrimLeft(text))

\* the level a reader logs at: every chunk at debug level
ReaderLevel_AllDebug(s) == LogLevelDebug

ReaderLevel(s) == IF s = "stdout" THEN LogLevelDebug ELSE LogLevelWarn

\* the process Start spawned first writes a byte to one of its streams
ProcessWrites(s) ==
    /\ ~crashed
    /\ procState[1] = "alive"
    /\ nWritten[s] < MaxOutput
    /\ \E b \in {"x", "\n"} : pipe' = [pipe EXCEPT ![s] = Append(@, b)]
    /\ nWritten' = [nWritten EXCEPT ![s] = @ + 1]
    /\ UNCHANGED <<otherVars, installVars, lastError, logEntries, binaryInstalled,
                   call, quotaInfos, heap, logSlice, returned, termSent, reader, chunks,
                   portVars>>

\* n, err := stream.Read(buf) in the reader of stream s, which runs once
\* Start has spawned the process: the bytes at hand, up to the buffer's size,
\* or an error at the end of the stream (the process has exited) or on a pipe
\* that Wait closed when it returned (the process is reaped)
ReaderRead(s) ==
    /\ ~crashed
    /\ Started(1)
    /\ reader[s].pc \in {"none", "read"}
    /\ IF pipe[s] # << >> /\ procState[1] # "reaped"
       THEN LET n == IF Len(pipe[s]) < MaxRead THEN Len(pipe[s]) ELSE MaxRead
            IN  /\ reader' = [reader EXCEPT ![s] = [pc |-> "log",
                                                    chunk |-> SubSeq(pipe[s], 1, n)]]
                /\ pipe' = [pipe EXCEPT ![s] = SubSeq(@, n + 1, Len(@))]
                /\ chunks' = [chunks EXCEPT ![s] = Append(@, SubSeq(pipe[s], 1, n))]
       ELSE /\ Exited(1)
            /\ reader' = [reader EXCEPT ![s] = [pc |-> "done", chunk |-> << >>]]
            /\ UNCHANGED <<pipe, chunks>>
    /\ UNCHANGED <<otherVars, installVars, lastError, logEntries, binaryInstalled,
                   call, quotaInfos, heap, logSlice, returned, termSent, nWritten,
                   portVars>>

\* pm.AddLogExternal(level, strings.TrimSpace(string(buf[:n]))) in the reader
\* of stream s, then back to Read (err was nil)
ReaderLog(s) ==
    /\ ~crashed
    /\ mutex = "free"
    /\ reader[s].pc = "log"
    /\ logEntries' = AddLog(logEntries, ReaderLevel(s), TrimSpace(reader[s].chunk))
    /\ reader' = [reader EXCEPT ![s] = [pc |-> "read", chunk |-> << >>]]
    /\ UNCHANGED <<otherVars, installVars, lastError, binaryInstalled,
                   call, quotaInfos, heap, logSlice, returned, termSent,
                   pipe, nWritten, chunks, portVars>>

\* ----------------------------------------- specification of the output readers
\* The first run: the process writes and exits, the readers and the exit
\* waiter work
NextReaders ==
    \/ \E s \in Streams : ProcessWrites(s)
    \/ \E s \in Streams : ReaderRead(s)
    \/ \E s \in Streams : ReaderLog(s)
    \/ \E p \in Pids : ProcessExit(p)
    \/ \E p \in Pids : WaiterWait(p)
    \/ \E p \in Pids : WaiterExit(p)

SpecReaders == RunningState /\ [][NextReaders]_vars

\* ----------------------------------------------------------- ports and settings
\* the port GetStatus reports: the field of the status record
GetStatusPort == statusPort

\* the port of the URL GetManagementURL builds
ManagementPort == configPort

\* the port Stop hands to killProcessOnPort
SweepPort == configPort

\* the Port field of the settings form: every valid number typed is stored in
\* the configuration the manager shares (two of the valid numbers here)
EditPort ==
    /\ \E port \in {DefaultPort, 9000} \ {configPort} : configPort' = port
    /\ UNCHANGED <<otherVars, installVars, lastError, logEntries, binaryInstalled,
                   call, quotaInfos, heap, logSlice, returned, termSent, readerVars,
                   statusPort, filePort, procPort>>

\* the Save button: SaveConfig, then UpdateConfig, which writes the proxy's
\* config file anew, and the log entry of the outcome
SaveSettings ==
    /\ ~crashed
    /\ mutex = "free"
    /\ Len(SelectSeq(logEntries,
                     LAMBDA e : e.message \in {"Configuration saved successfully",
                                               "Failed to save config"})) < MaxSaves
    /\ \E saved \in BOOLEAN :
          IF saved
          THEN /\ filePort' = configPort
               /\ logEntries' = AddLog(logEntries, LogLevelInfo, "Configuration saved successfully")
          ELSE /\ logEntries' = AddLog(logEntries, LogLevelError, "Failed to save config")
               /\ UNCHANGED filePort
    /\ UNCHANGED <<otherVars, installVars, lastError, binaryInstalled,
                   call, quotaInfos, heap, logSlice, returned, termSent, readerVars,
                   configPort, statusPort, procPort>>

\* ------------------------------------------------- specification of the ports
\* Start and Stop of the supervisor while the settings screen edits and saves
\* the port
NextPorts ==
    \/ StartCall
    \/ StartProbe
    \/ StopCall
    \/ StopSelectDone
    \/ StopSelectTimeout
    \/ killProcessOnPort
    \/ StopFinish
    \/ EditPort
    \/ SaveSettings
    \/ \E p \in Pids : StopWaiterRead(p)
    \/ \E p \in Pids : StopWaiterWait(p)
    \/ \E p \in Pids : ProcessExit(p)

SpecPorts == Init /\ [][NextPorts]_vars

\* --------------------------------------------- specification of the refresh
\* The three fetches of the ticker while the managed process runs, exits and
\* is taken down by its exit waiter
NextRefresh ==
    \/ FetchUsageStats
    \/ FetchAuthFiles
    \/ FetchQuotaInfo
    \/ \E p \in Pids : ProcessExit(p)
    \/ \E p \in Pids : WaiterWait(p)
    \/ \E p \in Pids : WaiterExit(p)

SpecRefresh == InitFetch /\ [][NextRefresh]_vars

\* ======================================================================== claims

\* No call is in progress and no exit waiter has a step left to take: every
\* exit that happened has been processed
Quiescent ==
    /\ ~crashed
    /\ fg.pc = "idle"
    /\ \A p \in Pids :
          \/ waiter[p].pc \in {"none", "done"}
          \/ waiter[p].pc = "wait" /\ ~WaitReturns(waiter[p].target)

\* C1: over all interleavings of Start, Stop and process exits (an exit waiter
\* of an earlier run may get the mutex after a later Start has returned),
\* `running` is true iff the last successful transition was a Start and the
\* process that Start spawned has not exited since.  Stated for the states in
\* which every exit has been processed.
C1_RunningIffStartedAndAlive ==
    Quiescent =>
        (running <=> (lastTransition.op = "start" /\ Alive(lastTransition.run)))


\* C2: a Start called while `running` is true returns AlreadyRunning, spawns
\* no subprocess, attaches no goroutine and leaves running, the process
\* handle, lastError and the log unchanged.
C2_StartWhileRunning ==
    [][ (StartCall /\ running) =>
          /\ ret' = [op |-> "Start", err |-> "AlreadyRunning"]
          /\ UNCHANGED <<running, process, lastError, logEntries, nRuns,
                         procState, waiter, stopWaiter, mutex, fg>> ]_vars

\* a Start was refused while the process of an earlier Start is running
C2_Witness ==
    /\ ret = [op |-> "Start", err |-> "AlreadyRunning"]
    /\ running
    /\ nRuns = 1
    /\ Alive(1)

\* C3: a Stop called while `running` is false returns NotRunning, delivers no
\* signal (no SIGTERM, no SIGKILL, no sweep of the port) and changes nothing.
C3_StopWhileNotRunning ==
    [][ (StopCall /\ ~running) =>
          /\ ret' = [op |-> "Stop", err |-> "NotRunning"]
          /\ UNCHANGED <<signals, sweeps, procState, running, process, lastError,
                         logEntries, nRuns, waiter, stopWaiter, mutex, fg,
                         lastTransition>> ]_vars

\* a Stop was refused after an earlier Stop had stopped run 1: the only signal
\* ever delivered and the only sweep are those of the earlier Stop
C3_Witness ==
    /\ ret = [op |-> "Stop", err |-> "NotRunning"]
    /\ ~running
    /\ lastTransition = [op |-> "stop", run |-> 1]
    /\ signals = {<<"SIGTERM", 1>>}
    /\ sweeps = 1

\* C4 as claimed: a Start called while not running with the binary absent
\* returns NotInstalled, spawns nothing, and afterwards `running` is false and
\* the process handle is nil.
C4_NotInstalledHandleUnset ==
    [][ (StartCall /\ ~running /\ ~binaryInstalled) =>
          /\ ret' = [op |-> "Start", err |-> "NotInstalled"]
          /\ UNCHANGED <<nRuns, procState, waiter>>
          /\ ~running'
          /\ process' = NoProcess ]_vars

\* C4 as amended: a Start called while not running with the binary absent
\* returns NotInstalled, spawns nothing, and leaves `running` false and the
\* process handle as it was (nil, or the Cmd an earlier failed Start left).
C4_NotInstalledNoSpawn ==
    [][ (StartCall /\ ~running /\ ~binaryInstalled) =>
          /\ ret' = [op |-> "Start", err |-> "NotInstalled"]
          /\ UNCHANGED <<nRuns, procState, waiter>>
          /\ ~running'
          /\ process' = process ]_vars

\* NotInstalled was returned while the handle still holds the Cmd of an
\* earlier Start whose spawn failed
C4_Witness ==
    /\ ret = [op |-> "Start", err |-> "NotInstalled"]
    /\ ~running
    /\ process # NoProcess
    /\ procState[process] = "failed"

\* C6: whenever the mutex is free (so whenever a reader can take it), `running`
\* is not true together with a nil process handle.
C6_RunningHasHandle ==
    mutex = "free" => (running => (process # NoProcess /\ Started(process)))

\* running again, with its handle, after a Stop and an exit waiter have both
\* cleared the handle of the earlier run
C6_Witness ==
    /\ mutex = "free"
    /\ running
    /\ process = 2
    /\ waiter[1].pc = "done"
    /\ lastTransition = [op |-> "start", run |-> 2]
    /\ sweeps = 1

\* C7: when the subprocess was spawned and the probe after the sleep fails
\* (the process has exited and been waited for), Start returns StartFailed with
\* `running` false, and `running` becomes true again only by a Start that
\* returns nil.
C7_StartFailedNotRunning ==
    /\ [][ (fg.pc = "start_sleep" /\ fg'.pc = "idle"
            /\ procState[process] = "reaped") =>
             (ret' = [op |-> "Start", err |-> "StartFailed"] /\ ~running') ]_vars
    /\ [][ (~running /\ running') =>
             (fg.pc = "start_sleep" /\ ret' = [op |-> "Start", err |-> "nil"]) ]_vars

\* Start returned StartFailed and the exit waiter has since run
C7_Witness ==
    /\ ret = [op |-> "Start", err |-> "StartFailed"]
    /\ ~running
    /\ lastError = "Process failed to start"
    /\ nRuns = 1
    /\ procState[1] = "reaped"


\* C5: the log never holds more than maxLogEntries entries, and an append
\* beyond the capacity drops exactly the oldest entry: the entries, numbered
\* in append order, are always the last ones appended, in that order (after
\* entry 1001, entry 1 is gone and entries 2..1001 remain), whether the
\* foreground or a background task appends.
C5_LogBoundedFIFO ==
    /\ [](Len(logEntries) <= maxLogEntries)
    /\ [](\A i \in 1..(Len(logEntries) - 1) :
             logEntries[i + 1].message = logEntries[i].message + 1)
    /\ [][ logEntries' # logEntries =>
             LET e == logEntries'[Len(logEntries')]
             IN  /\ e.message = NextSerial
                 /\ logEntries' = IF Len(logEntries) < maxLogEntries
                                  THEN Append(logEntries, e)
                                  ELSE Append(Tail(logEntries), e) ]_vars

\* entry 1001 was appended: entry 1 is gone, entries 2..1001 are in the log
C5_Witness ==
    /\ Len(logEntries) = maxLogEntries
    /\ logEntries[1].message = 2
    /\ logEntries[maxLogEntries].message = maxLogEntries + 1
    /\ logEntries[maxLogEntries].level = LogLevelDebug

\* C10: when FetchUsageStats runs while running and the request fails (a
\* transport error or a response other than 200), the numeric fields of the
\* cached snapshot keep their values and only the timestamp changes.
C10_FailedFetchKeepsStats ==
    [][ (now' # now /\ running
         /\ fetchRet'.outcome \in {"transport_error", "non200"}) =>
          /\ usageStats'.totalRequests = usageStats.totalRequests
          /\ usageStats'.successRequests = usageStats.successRequests
          /\ usageStats'.failedRequests = usageStats.failedRequests
          /\ usageStats'.totalTokens = usageStats.totalTokens
          /\ usageStats'.successRate = usageStats.successRate
          /\ usageStats'.lastUpdated = now'
          /\ fetchRet'.err = "nil"
          /\ UNCHANGED <<running, process, lastError, logEntries>> ]_vars

\* a failed request left the numbers of an earlier successful fetch in the
\* snapshot, under a later timestamp
C10_Witness ==
    /\ running
    /\ fetchRet.outcome = "non200"
    /\ usageStats.totalRequests = 10
    /\ usageStats.totalTokens = 500
    /\ usageStats.lastUpdated = 2


\* every exit waiter has returned or was never launched
AllWaitersFinished == \A p \in Pids : waiter[p].pc \in {"none", "done"}

\* C8: when the managed process exits on its own after a successful Start, an
\* exit waiter eventually sets `running` to false, clears the handle and
\* appends the log entry of that exit.  Stated on the final states: once the
\* process of the last successful Start has exited and no exit waiter is left
\* to run, one of them has been through the critical section for that process.
C8_ExitIsProcessed ==
    \A p \in Pids :
        ( /\ lastTransition = [op |-> "start", run |-> p]
          /\ Exited(p)
          /\ fg.pc = "idle"
          /\ ~crashed
          /\ AllWaitersFinished )
        => \E i \in Pids : waiter[i].pc = "done" /\ waiter[i].target = p


\* the positions of the foreground inside a Stop that passed the running check
StopPcs == {"stop_select", "stop_sweep", "stop_finish"}

\* C9: a Stop called while running always returns: it has sent SIGTERM, it
\* runs the sweep of the port while `running` is still true, sets `running`
\* to false only after the sweep, and when it returns nil `running` is false
\* and the handle is nil.  "Always returns" is stated on finite runs: the
\* program does not die while a Stop is in progress.
C9_StopReturns ==
    /\ [](fg.pc \in StopPcs => ~crashed)
    /\ [](fg.pc \in StopPcs => (running /\ <<"SIGTERM", fg.run>> \in signals))
    /\ [][ (fg.pc = "stop_sweep" /\ fg'.pc # "stop_sweep") =>
             (fg'.pc = "stop_finish" /\ sweeps' = sweeps + 1 /\ running') ]_vars
    /\ [][ (fg.pc = "stop_finish" /\ fg'.pc = "idle") =>
             /\ ret' = [op |-> "Stop", err |-> "nil"]
             /\ ~running'
             /\ process' = NoProcess ]_vars

\* -------------------------------------------------------------- telemetry claims
\* a step in which FetchAuthFiles ran and returned
FetchAuthFilesReturned ==
    /\ now' = now
    /\ authDir' = authDir
    /\ fetchRet'.op = "FetchAuthFiles"
    /\ <<authFiles, fetchRet, httpRequests, logEntries>>' #
          <<authFiles, fetchRet, httpRequests, logEntries>>

\* the outcomes on which FetchAuthFiles scans the directory
ScanOutcomes == {"not_running", "transport_error", "non200"}

\* the elements of a sequence
Range(seq) == {seq[i] : i \in DOMAIN seq}

\* C11: FetchAuthFiles and FetchUsageStats return nil whatever the management
\* endpoint does: transport error, status other than 200, unreadable body,
\* body that is not JSON of the expected shape.
C11_FetchNeverReturnsError ==
    fetchRet.op \in {"FetchAuthFiles", "FetchUsageStats"} => fetchRet.err = "nil"

\* C12: when FetchAuthFiles returns after it found the manager not running,
\* or running with a transport error or a status other than 200, the cached
\* list is a result of the scan of the auth directory; it sends no request
\* when the manager is not running.
C12_FallbackIsScan ==
    [][ (FetchAuthFilesReturned /\ fetchRet'.outcome \in ScanOutcomes) =>
          /\ authFiles' \in scanAuthDirectory(authDir)
          /\ (fetchRet'.outcome = "not_running") = ~running
          /\ ~running => httpRequests' = httpRequests
          /\ running => httpRequests' = httpRequests + 1
          /\ fetchRet'.err = "nil" ]_vars

\* a failed request replaced the list an earlier 200 response had left by the
\* scan of a directory that holds claude-dev@x.com.json
C12_Witness ==
    /\ running
    /\ fetchRet.op = "FetchAuthFiles"
    /\ fetchRet.outcome = "non200"
    /\ httpRequests = 2
    /\ authDir.entries = {1}
    /\ authFiles = << [id |-> FileName(<<"claude", "dev@x.com">>, ".json"),
                       name |-> FileName(<<"dev@x.com">>, ""),
                       provider |-> ProviderClaude, status |-> "active",
                       email |-> FileName(<<"dev@x.com">>, "")] >>

\* the table entry listed first among those whose prefix the name starts with
FirstListed(name) ==
    CHOOSE i \in Matches(name) : \A j \in Matches(name) : i <= j

\* the record the scan is to yield for a file name
Expected(filename) ==
    LET name == TrimSuffix(filename)
    IN  IF Matches(name) = {}
        THEN AuthFile(filename, [provider |-> ProviderGemini, email |-> name])
        ELSE AuthFile(filename,
                      [provider |-> providers[FirstListed(name)].prov,
                       email |-> TrimPrefix(name, providers[FirstListed(name)].prefix)])

\* C13: the scan yields, for every readable regular file <prefix>-<rest>.json
\* of the directory whose prefix is in the table, a record with the provider
\* of that prefix, email <rest> and status active, and for a name with no
\* known prefix a record with provider gemini and the name without .json.
C13_ScanYieldsRecords ==
    [][ (FetchAuthFilesReturned /\ fetchRet'.outcome \in ScanOutcomes /\ authDir.ok) =>
          \A k \in authDir.entries :
             ~Skipped(DirEntries[k]) =>
                Expected(DirEntries[k].name) \in Range(authFiles') ]_vars

\* C14: two parses of the same file name return the same (provider, email)
\* pair: a scan that follows a scan gives every file it meets again the
\* provider and the email it had.
C14_ParseDeterministic ==
    [][ (FetchAuthFilesReturned /\ fetchRet.op = "FetchAuthFiles"
         /\ fetchRet.outcome \in ScanOutcomes /\ fetchRet'.outcome \in ScanOutcomes) =>
          \A a \in Range(authFiles), b \in Range(authFiles') :
             a.id = b.id => a.provider = b.provider /\ a.email = b.email ]_vars

\* -------------------------------------------------------------- installer claims
\* run i is between the entry and the return of DownloadAndInstallBinary
InPipeline(i) ==
    inst[i].pc \in {"log_start", "fetch", "find", "download", "confirm", "stage",
                    "remove_old", "write_new", "set_err", "log_installed",
                    "finish", "log_success", "log_err", "end"}

\* the step in which DownloadAndInstallBinary returns in run i
Returns(i) == inst[i].pc = "end" /\ inst'[i].pc \in {"returned", "done"}

\* the errors of the stages that precede extractAndInstall
EarlyErrors == {"fetch release failed", "no compatible binary found", "download failed"}

\* the milestones of a complete run, in tenths
Milestones == <<0, 1, 6, 7, 10>>

\* the milestones a run has set when the stage that returns err fails
MilestonesAt(err) ==
    CASE err = "fetch release failed" -> <<0>>
      [] err \in {"no compatible binary found", "download failed"} -> <<0, 1>>
      [] OTHER -> <<0, 1, 6, 7>>

IsPrefix(s, t) == Len(s) <= Len(t) /\ s = SubSeq(t, 1, Len(s))

\* C15: at most one execution of DownloadAndInstallBinary is between its
\* entry and its return at any time.
C15_SingleFlight ==
    Cardinality({i \in Installs : InPipeline(i)}) <= 1

\* C16: the progress a run sets goes through 0, 0.1, 0.6, 0.7, 1.0 in that
\* order (a prefix of it when a stage fails), stays within [0,1], never
\* decreases while a run is in progress, and is 1.0 when the run returns
\* exactly if the run returns no error.
C16_ProgressMilestones ==
    /\ [](\A i \in Installs : IsPrefix(inst[i].milestones, Milestones))
    /\ [](downloadProgress \in 0..10)
    /\ [][ (\E i \in Installs : InPipeline(i)) =>
              downloadProgress' >= downloadProgress ]_vars
    /\ [][ \A i \in Installs :
              Returns(i) => ((downloadProgress' = 10) = (inst[i].err = "none")) ]_vars

\* C17: when a stage of a run fails, the run returns that error with
\* lastError holding its message and an error-level entry for it in the log,
\* and no later stage has run: the progress is the last milestone the run
\* reached, and a failure before the final copy has left the install path
\* and, before extractAndInstall, the temporary directory untouched.
C17_FailureAborts ==
    [][ \A i \in Installs :
          (Returns(i) /\ inst[i].err # "none") =>
             /\ lastError' = inst[i].err
             /\ \E k \in DOMAIN logEntries' :
                   logEntries'[k] = LogEntry(LogLevelError, FailureLog(inst[i].err))
             /\ inst[i].milestones = MilestonesAt(inst[i].err)
             /\ downloadProgress' = inst[i].milestones[Len(inst[i].milestones)]
             /\ inst[i].err # "write binary failed" => ~inst[i].touched
             /\ inst[i].err \in EarlyErrors => inst[i].tempDir = "none" ]_vars

\* C18: when the metadata fetch, the asset lookup or the download of a run
\* fails, the binary that was installed when the run was entered is at the
\* install path, unmodified, when the run returns.
C18_EarlyFailureKeepsBinary ==
    [][ \A i \in Installs :
          (Returns(i) /\ inst[i].err \in EarlyErrors
           /\ inst[i].atCall \in {"previous", "new"}) =>
             binaryContent' = inst[i].atCall ]_vars

\* C19: the install path goes from what it held to the complete new binary
\* in one step: no step leaves it empty or with part of a file.
C19_AtomicReplace ==
    [][ binaryContent' # binaryContent => binaryContent' = "new" ]_vars

\* C20: once extractAndInstall has created its temporary directory, the
\* directory is gone when the call has returned, on success and on failure.
C20_TempDirRemoved ==
    \A i \in Installs :
       /\ inst[i].pc \in {"set_err", "log_err", "finish", "log_success",
                          "end", "returned", "done"} => inst[i].tempDir # "exists"
       /\ inst[i].pc \in {"finish", "log_success"} => inst[i].tempDir = "removed"
       /\ inst[i].err \in {"write temp file failed", "read staged binary failed",
                           "extract archive failed", "could not find binary in archive",
                           "write binary failed"} => inst[i].tempDir = "removed"

\* a run whose archive held no binary has returned, its directory removed
C20_Witness ==
    \E i \in Installs :
       /\ inst[i].pc = "done"
       /\ inst[i].err = "could not find binary in archive"
       /\ inst[i].tempDir = "removed"
       /\ lastError = "could not find binary in archive"


\* ------------------------------------------------------ release and archive claims

\* the patterns that exclude an asset of another platform or a checksum file
OtherPlatformOrChecksum(goos) ==
    {"windows", "linux", "darwin", "checksum", ".sha256", ".md5"} \ {goos}

\* the assets of the last search that contain the target and are not excluded
Qualifying ==
    {k \in 1..Len(call.assets) :
        /\ Contains(ToLower(call.assets[k]), <<call.goos, "_", call.goarch>>)
        /\ \A p \in OtherPlatformOrChecksum(call.goos) :
               ~Contains(ToLower(call.assets[k]), <<p>>)}

MentionsOtherOS(name, goos) ==
    \E os \in {"windows", "linux", "darwin"} \ {goos} : Contains(name, <<os>>)

\* a name of a checksum file or of a signature file
ChecksumOrSignature(name) ==
    \E p \in {"checksum", ".sha256", ".md5", ".sig", ".asc"} : Contains(name, <<p>>)

\* C22: for every feed and every target platform, asset selection never
\* returns an asset whose name mentions a different OS family, nor a checksum
\* or signature file.
C22_NeverOtherOSNorChecksumNorSignature ==
    (call.op = "findCompatibleAsset" /\ call.asset # NoAsset) =>
        /\ ~MentionsOtherOS(ToLower(call.assets[call.asset]), call.goos)
        /\ ~ChecksumOrSignature(ToLower(call.assets[call.asset]))

\* the regular files of the last archive whose base name is a known binary
\* name, and those the executable fallback accepts
NameMatching ==
    {k \in 1..Len(call.entries) :
        /\ call.entries[k].kind = "file"
        /\ call.entries[k].suffix = ""
        /\ ToLowerToken(call.entries[k].stem)
               \in {"cliproxyapi", "cli-proxy-api", "cli-proxy-api-plus", "proxy"}}

ExecutableNotScript ==
    {k \in 1..Len(call.entries) :
        /\ call.entries[k].kind = "file"
        /\ call.entries[k].exec
        /\ call.entries[k].suffix # ".sh"}

C25_QuotasDerivedFromAccounts ==
    [][(call' # call /\ call'.op = "GetQuotaInfos") =>
          /\ UNCHANGED exceptCall
          /\ Len(call'.out) = Len(authFiles)
          /\ \A k \in 1..Len(authFiles) :
                /\ call'.out[k].accountID = authFiles[k].id
                /\ call'.out[k].accountName = authFiles[k].name
                /\ call'.out[k].provider = authFiles[k].provider
                /\ call'.out[k].used = 1000 + 100 * StrLen(authFiles[k].id)
                /\ call'.out[k].limit = 10000
                /\ call'.out[k].resetTime = now + 24]_vars

\* a call made with several accounts cached and a different quota list stored
C25_Witness ==
    /\ call.op = "GetQuotaInfos"
    /\ Len(call.auths) > 1
    /\ call.stored # << >>
    /\ Len(call.out) = Len(call.auths)
    /\ call.out[1].accountID # call.stored[1].accountID

\* ------------------------------------------------------------- snapshot claims

\* the slice of the manager shows the log
SliceShowsLog == View(heap, logSlice) = logEntries

\* C26: a value returned by a getter is a snapshot: what the caller reads
\* through a slice returned by GetLogs stays what it was on return, whatever
\* appends, evictions and clears follow.
C26_ReturnedLogsUnchanged ==
    \A r \in returned : View(heap, r.hdr) = r.seen

\* a full log was returned; since then an append wrote into the spare cell
\* of the same backing array and evicted the first entry
C26_Witness ==
    \E r \in returned :
        /\ r.hdr.len = maxLogEntries
        /\ logSlice.arr = r.hdr.arr
        /\ logSlice.off > r.hdr.off
        /\ logEntries[1].message > r.seen[1].message
        /\ heap[r.hdr.arr][r.hdr.off + r.hdr.len + 1] # ZeroEntry

\* ---------------------------------------------------------- locking and log claims

\* the positions at which the foreground waits for a process or for time to
\* pass: the grace sleep and probe of Start, the wait for the exit, the
\* force-kill and the port sweep of Stop
IOPcs == {"start_sleep", "stop_select", "stop_sweep"}

\* C27: no task performs I/O while holding the store lock: while Start
\* sleeps and probes, and while Stop waits for the exit, kills and sweeps,
\* the mutex is free, so a GetStatus or a log append can proceed.
C27_NoIOUnderLock == fg.pc \in IOPcs => mutex = "free"

\* a step in which Start or Stop returns an error to its caller
ReturnsError ==
    /\ StartCall \/ StartProbe \/ StopCall
    /\ fg'.pc = "idle"
    /\ ret'.err # "nil"

\* the last entry of a log is an error entry
EndsWithError(log) == log # << >> /\ log[Len(log)].level = LogLevelError

\* C28: every failure is recorded as a log entry by the manager before the
\* operation returns: a Start or Stop that returns an error has appended an
\* error entry when it returns, an install that returns an error has left an
\* error entry, and a FetchAuthFiles that falls back to the scan appends an
\* entry.
C28_FailuresLogged ==
    /\ [][ReturnsError => (logEntries' # logEntries /\ EndsWithError(logEntries'))]_vars
    /\ [][\A i \in Installs :
             (Returns(i) /\ inst[i].err # "none") =>
                 \E k \in 1..Len(logEntries) : logEntries[k].level = LogLevelError]_vars
    /\ [][(FetchAuthFilesReturned /\ fetchRet'.outcome \in {"transport_error", "non200"})
             => logEntries' # logEntries]_vars

\* the number of entries of a log with the given message
RECURSIVE Count(_, _)
Count(log, message) ==
    IF log = << >> THEN 0
    ELSE Count(Tail(log), message) + (IF Head(log).message = message THEN 1 ELSE 0)

\* C29: a successful FetchAuthFiles leaves in the cache the fetched list and
\* nothing else (no entry of the previous list unless the response carries
\* it), and the cache changes in no other way than by a fetch that returns,
\* so after several fetches it holds what the last one wrote.
C29_ReplacedWholesale ==
    /\ [][(FetchAuthFilesReturned /\ fetchRet'.outcome = "ok") =>
             /\ authFiles' \in AuthPayloads
             /\ fetchRet'.err = "nil"]_vars
    /\ [][authFiles' # authFiles =>
             (FetchAuthFilesReturned /\ fetchRet'.outcome \in ScanOutcomes \cup {"ok"})]_vars

\* two responses were stored one after the other; the cache holds the three
\* accounts of the second and none of the first
C29_Witness ==
    /\ fetchRet.op = "FetchAuthFiles"
    /\ fetchRet.outcome = "ok"
    /\ Count(logEntries, "Fetched auth files from API") = 2
    /\ Len(authFiles) = 3
    /\ authFiles[1] = Account("id85", ProviderKiro)

\* C30: every change of `running` (to true by Start, to false by Stop or by
\* the exit waiter) is made in a step that holds the mutex throughout and
\* appends a log entry, so the new status is never visible without its entry.
C30_TransitionsLogged ==
    [][running' # running =>
          /\ \E e \in {LogEntry(LogLevelInfo, "Proxy server started successfully"),
                       LogEntry(LogLevelInfo, "Proxy server stopped"),
                       LogEntry(LogLevelInfo, "Proxy process exited"),
                       LogEntry(LogLevelError, "Proxy exited with error")} :
                logEntries' = Append(logEntries, e)
          /\ mutex' = "free"]_vars

\* the exit waiter took `running` to false after the process died on its
\* own, and its entry is the last of the log
C30_Witness ==
    /\ ~running
    /\ lastTransition.op = "start"
    /\ \E i \in Pids : waiter[i].pc = "done"
    /\ logEntries # << >>
    /\ logEntries[Len(logEntries)] = LogEntry(LogLevelInfo, "Proxy process exited")


\* ---------------------------------------------------------- supervisor claims, II

\* C33: at most one subprocess spawned by the manager is alive at any time,
\* over all interleavings of Start, Stop (graceful or force-kill), exits and
\* exit waiters of earlier runs.
C33_AtMostOneAlive == Cardinality({p \in Pids : Alive(p)}) <= 1

\* the exit waiter of run i leaves its critical section
ExitWaiterActs(i) == waiter[i].pc = "lock" /\ waiter'[i].pc = "done"

\* C37: when Stop signalled a running process and returned nil (the waiter
\* can only take the mutex after Stop released it), the exit waiter of that
\* run neither sets lastError nor appends an error entry.
C37_StoppedRunNoExitError ==
    [][\A i \in Pids :
          (ExitWaiterActs(i) /\ waiter[i].target \in termSent) =>
              /\ lastError' = lastError
              /\ ~EndsWithError(logEntries')]_vars


\* ---------------------------------------------------------- installer claims, II

\* C36: the install flag is true while a run of DownloadAndInstallBinary
\* executes (from its first assignments to its return) and false once the
\* run has returned, whichever stage it returned from.
C36_FlagCoversRun ==
    /\ []((\E i \in Installs : InPipeline(i)) => isDownloading)
    /\ [][\A i \in Installs : Returns(i) => ~isDownloading']_vars


\* ---------------------------------------------------------- refresh claims

\* C32: FetchUsageStats called while not running sends no request, returns
\* nil and replaces the snapshot, whatever it held, by one whose numeric
\* fields are all zero and whose timestamp is the time of the call.
C32_UsageWhileNotRunning ==
    [][(FetchUsageStats /\ ~running) =>
          /\ httpRequests' = httpRequests
          /\ fetchRet'.err = "nil"
          /\ usageStats' = [totalRequests |-> 0, successRequests |-> 0,
                            failedRequests |-> 0, totalTokens |-> 0,
                            successRate |-> 0, lastUpdated |-> now']
          /\ now' > now]_vars

\* the second fetch of usage found the process gone; the first had succeeded
\* and left a snapshot with counts
C32_Witness ==
    /\ fetchRet = [op |-> "FetchUsageStats", outcome |-> "not_running", err |-> "nil"]
    /\ Count(logEntries, "Updated usage statistics") = 1
    /\ usageStats.lastUpdated = 2
    /\ usageStats.totalRequests = 0

\* C35: a fetch of the accounts, of the usage or of the quotas that returns an
\* error leaves the cached accounts, the usage snapshot (timestamp included),
\* the quota list and the log as they were before the call.
C35_ErrorLeavesCaches ==
    [][((FetchAuthFiles \/ FetchUsageStats \/ FetchQuotaInfo) /\ fetchRet'.err # "nil") =>
          UNCHANGED <<authFiles, usageStats, quotaInfos, logEntries>>]_vars

\* a usage fetch returned an error while every cache was filled
C35_Witness ==
    /\ fetchRet.op = "FetchUsageStats"
    /\ fetchRet.err = "bad_json"
    /\ usageStats.totalRequests = 10
    /\ authFiles # << >>
    /\ quotaInfos # << >>


\* ---------------------------------------------------------- log claims, II

\* C39: ClearLogs leaves the log empty and changes nothing else (running,
\* the process handle, the accounts, the usage snapshot, the install flag and
\* progress, lastError); ClearLogs and an append exclude each other by the
\* mutex, so an append that comes first is removed with the rest and an
\* append that comes next is the only entry of the new log.
C39_ClearLogsFrame ==
    [][/\ ClearLogs =>
            /\ logEntries' = << >>
            /\ View(heap', logSlice') = << >>
            /\ UNCHANGED <<running, process, authFiles, usageStats, isDownloading,
                           downloadProgress, lastError>>
       /\ (AddLogInMemory /\ logEntries = << >>) =>
            /\ Len(logEntries') = 1
            /\ View(heap', logSlice') = logEntries']_vars

\* a full log was cleared and one entry has been appended since
C39_Witness ==
    /\ logSlice.arr > 1
    /\ Len(logEntries) = 1
    /\ View(heap, logSlice) = logEntries
    /\ Len(heap[1]) >= maxLogEntries


\* ---------------------------------------------------------- output reader claims

\* the messages of the entries of a level, in the order of the log
MessagesAt(log, level) ==
    LET sel == SelectSeq(log, LAMBDA e : e.level = level)
    IN  [i \in 1..Len(sel) |-> sel[i].message]

\* the chunks of stream s whose entry has been appended
LoggedChunks(s) ==
    IF reader[s].pc = "log" THEN SubSeq(chunks[s], 1, Len(chunks[s]) - 1) ELSE chunks[s]

\* the level of the entries of stream s
StreamLevel(s) == IF s = "stdout" THEN "debug" ELSE "warn"

\* C31: every chunk a reader got from Read appends exactly one entry, of debug
\* level for stdout and of warn level for stderr; the entries of a stream are
\* in the log in the order its chunks were read; a reader stops only when its
\* stream has ended, and for good.
C31_OneEntryPerChunkInOrder ==
    /\ [][\A s \in Streams :
             (reader[s].pc = "log" /\ reader'[s].pc # "log") =>
                 logEntries' = Append(logEntries,
                                      LogEntry(StreamLevel(s), TrimSpace(reader[s].chunk)))]_vars
    /\ [](\A s \in Streams :
             MessagesAt(logEntries, StreamLevel(s)) =
                [i \in 1..Len(LoggedChunks(s)) |-> TrimSpace(LoggedChunks(s)[i])])
    /\ [](\A s \in Streams : reader[s].pc = "done" => Exited(1))
    /\ [][\A s \in Streams : reader[s].pc = "done" => reader'[s].pc = "done"]_vars

\* both streams were read to their ends, stdout in two chunks that were
\* logged around the entry of stderr
C31_Witness ==
    /\ \A s \in Streams : reader[s].pc = "done"
    /\ chunks["stdout"] = << <<"x">>, <<"\n">> >>
    /\ chunks["stderr"] = << <<"\n", "x">> >>
    /\ Len(logEntries) >= 5
    /\ logEntries[3].level = "debug" /\ logEntries[3].message = <<"x">>
    /\ logEntries[4].level = "warn" /\ logEntries[4].message = <<"x">>
    /\ logEntries[5].level = "debug" /\ logEntries[5].message = << >>


\* ---------------------------------------------------------- port claims

\* C38: while the managed process runs, the port GetStatus reports and the
\* port of the management URL are the port the process was started with, and
\* the port Stop sweeps is that port too, even if the port of the shared
\* configuration was edited since the start.
C38_PortsOfTheRun ==
    /\ []((running /\ process # NoProcess /\ Alive(process)) =>
             /\ GetStatusPort = procPort
             /\ ManagementPort = procPort)
    /\ [][killProcessOnPort => SweepPort = procPort]_vars


\* ---------------------------------------------------------- progress claims

\* The supervisor with its timers firing and every task scheduled: the sleep
\* of Start ends, the select of Stop takes a case, the sweep and the return
\* follow, and the goroutines that are able to step do so.
SpecFair ==
    /\ Spec
    /\ WF_vars(StartProbe \/ StopSelectDone \/ StopSelectTimeout \/ killProcessOnPort
                   \/ StopFinish)
    /\ \A p \in Pids : WF_vars(WaiterCheck(p) \/ WaiterDeref(p) \/ WaiterWait(p) \/ WaiterExit(p))
    /\ \A p \in Pids : WF_vars(StopWaiterRead(p) \/ StopWaiterWait(p))

\* C34: the system is deadlock-free: with the timers firing and the mutex
\* granted fairly, a Start or a Stop that was invoked returns, whatever the
\* exit waiters and the goroutine of Stop do meanwhile.
C34_CallsReturn == (fg.pc # "idle") ~> (fg.pc = "idle")

====
